---- MODULE Spec2Model ----
(***************************************************************************)
(* A model of prgpu's resource caching and kernel-dispatch layer:          *)
(*   - the GPU buffer cache   (gpu/backends/{metal,cuda}/buffer.rs)        *)
(*   - the compiled-kernel cache (gpu/backends/{metal,cuda}/pipeline.rs)   *)
(*   - the dispatch orchestrator (gpu/backends/{metal,cuda}/mod.rs, run)   *)
(* One backend is compiled into a build (cargo features); `backend` is     *)
(* drawn in Init and never changes.  Native objects are modelled by their  *)
(* identity: a fresh positive integer per object the driver hands out,     *)
(* Null (0) for a null pointer.                                            *)
(***************************************************************************)
EXTENDS Integers, Sequences, FiniteSets, TLC

\* ---------------------------------------------------------------- bounds
\* number of worker threads calling into the layer
NThreads == 2
\* total number of buffer-cache calls (get_or_create, cleanup) in a run
MaxBufCalls == 3

Threads == 1..NThreads
Backends == {"metal", "cuda"}
Null == 0

\* ------------------------------------------------------------- variables
VARIABLES
    backend,      \* the backend this build compiles: "metal" or "cuda"
    altKey,       \* the second buffer key the callers of this run request
    \* --- buffer cache (buffer.rs)
    bufInit,      \* CACHE: OnceLock has been initialised
    bufCache,     \* CACHE: HashMap<BufferKey, BufferObj>, a set of [key, raw]
    bufLock,      \* holder of the cache Mutex, 0 when free
    bc,           \* per thread: the buffer-cache call it is executing
    nextBuf,      \* identity of the next native buffer the driver creates
    allocCalls,   \* native allocation calls made so far, per requested key
    bufReleased,  \* native buffers sent `release` at least once
    bufOverReleased, \* native buffers sent `release` more than once
    bufReturned,  \* views returned since the last cleanup: {[key, raw]}
    nBufCalls,    \* calls begun so far
    nBufCleanups, \* cleanup() calls that drained the map
    bufOverlap    \* some call began while another was in progress

bufVars == <<bufInit, bufCache, bufLock, bc, nextBuf, allocCalls, bufReleased,
             bufOverReleased, bufReturned, nBufCalls, nBufCleanups, bufOverlap>>

\* --- kernel cache (pipeline.rs) and dispatch (mod.rs)
VARIABLES
    altIn,        \* the second input the callers of this run pass
    reported,     \* what a Metal pipeline reports: [tew, max_threads]
    kBudget,      \* number of calls the callers of this run make
    archHint,     \* NVRTC's view of the device's --gpu-architecture value
    hotReload,    \* the build has cfg(all(debug_assertions, shader_hotreload))
    debugAssertions, \* the build has cfg(debug_assertions)
    timingAnswer, \* what the driver's timing calls answer in this run
    kInit,        \* pipeline CACHE: OnceLock has been initialised
    kCache,       \* pipeline CACHE: HashMap<Key, pair>, a set of [key, pair]
    kc,           \* per thread: the kernel-layer call it is executing
    nextJob,      \* identity of the next kernel pair a compilation produces
    kReturned,    \* pairs get_pso_pair returned since the last cleanup
    kReleased,    \* native objects released/unloaded at least once
    kOverReleased,\* native objects released/unloaded more than once
    nKCalls,      \* calls begun so far
    nKCleanups,   \* cleanup()/hot_reload() calls that drained the map
    kOverlap      \* some call began while another was in progress

kernVars == <<kInit, kCache, kc, nextJob, kReturned, kReleased,
              kOverReleased, nKCalls, nKCleanups, kOverlap>>

\* --- run-time include expansion (gpu/shaders.rs)
VARIABLES
    disk,         \* the shader files on disk: canonical path -> lines
    rootSrc,      \* the src argument of expand_includes_runtime: lines
                  \* (empty until the call)
    incPc,        \* "idle", "walking" or "done"
    incTmp,       \* the temporary root file exists
    incVisited,   \* the walker's `stack`: the paths pushed and not yet popped
    incStack,     \* expand_one activations, outermost first:
                  \* [path, text, i, out]
    incResult     \* what expand_includes_runtime returned

incVars == <<disk, rootSrc, incPc, incTmp, incStack, incVisited, incResult>>

\* --- the sizes get_or_create computes (buffer.rs)
VARIABLES
    overflowChecks, \* the build panics on integer overflow (debug profile)
    szView          \* the sizes of the last get_or_create, none before it

sizeVars == <<overflowChecks, szView>>

\* --- the two cache locks (parking_lot::Mutex in buffer.rs and pipeline.rs)
VARIABLES
    lockOwner,    \* cache lock -> the thread that holds it, 0 when free
    lc,           \* per thread: the cache operation it is in, [op, pc, sections]
    nLockCalls    \* cache operations begun

lockVars == <<lockOwner, lc, nLockCalls>>

\* --- concurrent calls of expand_includes_runtime (gpu/shaders.rs)
VARIABLES
    tmpFile,      \* base_dir/__temp_runtime_root__.metal: [present, text]
    ec            \* per thread: its call, [pc, src, text, result]

parVars == <<tmpFile, ec>>

\* What the buffer cache never touches, what the kernel layer never
\* touches and what the include expander never touches: the two caches
\* are separate statics and the expander has no statics.
BufFrame ==
    UNCHANGED <<altIn, reported, kBudget, archHint, hotReload, debugAssertions,
                timingAnswer, kernVars, incVars, sizeVars, lockVars,
                parVars>>
KernFrame ==
    UNCHANGED <<backend, altKey, altIn, reported, kBudget, archHint, hotReload,
                debugAssertions, timingAnswer, bufVars,
                incVars, sizeVars, lockVars,
                parVars>>
IncFrame ==
    UNCHANGED <<backend, altKey, altIn, reported, kBudget, archHint, hotReload,
                debugAssertions, timingAnswer, bufVars,
                kernVars, sizeVars, lockVars,
                parVars>>
SizeFrame ==
    UNCHANGED <<backend, altKey, altIn, reported, kBudget, archHint, hotReload,
                debugAssertions, timingAnswer, bufVars,
                kernVars, incVars, lockVars, parVars>>
LockFrame ==
    UNCHANGED <<backend, altKey, altIn, reported, kBudget, archHint, hotReload,
                debugAssertions, timingAnswer, bufVars,
                kernVars, incVars, sizeVars, parVars>>
ParFrame ==
    UNCHANGED <<backend, altKey, altIn, reported, kBudget, archHint, hotReload,
                debugAssertions, timingAnswer, bufVars,
                kernVars, incVars, sizeVars, lockVars>>

\* ------------------------------------------------------------ BufferKey
\* Field domains.  Device pointers are 1 and 2; the host suite reports
\* device index i as the device pointer SuiteDeviceHandle(i).
DevicePtrs == {1, 2}
DeviceIndexes == {0, 1}
SuiteDeviceHandle(i) == i + 1

BaseKey == [device |-> 1, width |-> 2, height |-> 2, bytes_per_pixel |-> 8, tag |-> 0]

AllKeys == [device : DevicePtrs, width : {2, 3}, height : {2, 3},
            bytes_per_pixel : {8, 16}, tag : {0, 1}]

KeyFields == {"device", "width", "height", "bytes_per_pixel", "tag"}

FieldsDiffering(k1, k2) == {f \in KeyFields : k1[f] # k2[f]}

\* The second key of a run differs from BaseKey in exactly one field.
AltKeys == {k \in AllKeys : Cardinality(FieldsDiffering(k, BaseKey)) = 1}

\* The keys requested in a run.
Keys == {BaseKey, altKey}

\* #[derive(PartialEq, Eq, Hash)] on BufferKey: all five fields compared.
BufferKeyEq(k1, k2) ==
    /\ k1.device = k2.device
    /\ k1.width = k2.width
    /\ k1.height = k2.height
    /\ k1.bytes_per_pixel = k2.bytes_per_pixel
    /\ k1.tag = k2.tag

\* BufferKey { device: device as usize, width, height, bytes_per_pixel, tag }
\* for DeviceHandleInit::FromPtr(device) / FromSuite((device_index, suite)).
DeviceOfArg(form, dev) == IF form = "ptr" THEN dev ELSE SuiteDeviceHandle(dev)

MakeKey(form, dev, w, h, b, t) ==
    [device |-> DeviceOfArg(form, dev), width |-> w, height |-> h,
     bytes_per_pixel |-> b, tag |-> t]

\* guard.get(&key): the entries stored under key (at most one).
CacheGet(cache, key) == {e \in cache : BufferKeyEq(e.key, key)}

\* Mutant of CacheInsert: the created buffer is returned but never stored.
CacheInsertForgotten(cache, key, raw) == cache

\* guard.insert(key, obj): replaces the entry under key.
CacheInsert(cache, key, raw) ==
    {e \in cache : ~BufferKeyEq(e.key, key)} \cup {[key |-> key, raw |-> raw]}

\* ------------------------------------------------------- thread-local call
IdleCall == [pc |-> "idle", op |-> "none"]

BufArgs == {a \in [form : {"ptr", "suite"}, dev : DevicePtrs \cup DeviceIndexes,
                   width : {2, 3}, height : {2, 3}, bytes_per_pixel : {8, 16},
                   tag : {0, 1}] :
              /\ (a.form = "ptr" => a.dev \in DevicePtrs)
              /\ (a.form = "suite" => a.dev \in DeviceIndexes)
              /\ MakeKey(a.form, a.dev, a.width, a.height, a.bytes_per_pixel, a.tag) \in Keys}

ArgKey(a) == MakeKey(a.form, a.dev, a.width, a.height, a.bytes_per_pixel, a.tag)

InCall(t) == bc[t].pc \notin {"idle", "done", "panic"}

\* A thread that panicked has unwound out of the layer and makes no more calls.
CanCall(t) == bc[t].pc \in {"idle", "done"}

BufInit ==
    /\ bufInit = FALSE
    /\ bufCache = {}
    /\ bufLock = 0
    /\ bc = [t \in Threads |-> IdleCall]
    /\ nextBuf = 1
    /\ allocCalls = [k \in Keys |-> 0]
    /\ bufReleased = {}
    /\ bufOverReleased = {}
    /\ bufReturned = {}
    /\ nBufCalls = 0
    /\ nBufCleanups = 0
    /\ bufOverlap = FALSE

\* ---------------------------------------------------- buffer get_or_create
\* A thread enters get_or_create(device, width, height, bytes_per_pixel, tag).
\* metal: match device { FromPtr => ..., FromSuite => ... }; cuda takes the
\* raw device pointer only.
BufBegin(t) ==
    /\ CanCall(t)
    /\ nBufCalls < MaxBufCalls
    /\ \E a \in BufArgs :
          /\ (backend = "cuda" => a.form = "ptr")
          /\ bc' = [bc EXCEPT ![t] =
                       [pc |-> IF a.form = "suite" THEN "suite_alloc" ELSE "lock",
                        op |-> "get_or_create", args |-> a, key |-> ArgKey(a),
                        allocated |-> Null, raw |-> Null, hit |-> FALSE,
                        allocs |-> 0]]
    /\ nBufCalls' = nBufCalls + 1
    /\ bufOverlap' = (bufOverlap \/ \E u \in Threads \ {t} : InCall(u))
    /\ BufFrame
    /\ UNCHANGED <<backend, altKey, bufInit, bufCache, bufLock, nextBuf, allocCalls,
                   bufReleased, bufOverReleased, bufReturned, nBufCleanups>>

\* FromSuite: suite.allocate_device_memory(device_index, length) runs first,
\* before the cache is looked at; Err => panic!("Failed to allocate ...").
\* Then suite.device_info(device_index).unwrap().outDeviceHandle builds the
\* key; unwrap() panics when the suite reports no such device.
BufSuiteAllocate(t) ==
    /\ bc[t].pc = "suite_alloc"
    /\ allocCalls' = [allocCalls EXCEPT ![bc[t].key] = @ + 1]
    /\ \E res \in {"ok", "alloc_err", "info_err"} :
          IF res = "alloc_err"
          THEN /\ bc' = [bc EXCEPT ![t].pc = "panic", ![t].allocs = @ + 1]
               /\ UNCHANGED nextBuf
          ELSE /\ bc' = [bc EXCEPT ![t].pc = IF res = "ok" THEN "lock" ELSE "panic",
                                   ![t].allocated = nextBuf,
                                   ![t].allocs = @ + 1]
               /\ nextBuf' = nextBuf + 1
    /\ BufFrame
    /\ UNCHANGED <<backend, altKey, bufInit, bufCache, bufLock, bufReleased,
                   bufOverReleased, bufReturned, nBufCalls, nBufCleanups,
                   bufOverlap>>

\* CACHE.get_or_init(|| Mutex::new(HashMap::new())); map.lock()
BufLockAcquire(t) ==
    /\ bc[t].pc = "lock"
    /\ bufLock = 0
    /\ bufLock' = t
    /\ bufInit' = TRUE
    /\ bc' = [bc EXCEPT ![t].pc = "locked"]
    /\ BufFrame
    /\ UNCHANGED <<backend, altKey, bufCache, nextBuf, allocCalls, bufReleased, bufOverReleased, bufReturned,
                   nBufCalls, nBufCleanups, bufOverlap>>

\* The call returns ImageBuffer { buf, width, height, bytes_per_pixel,
\* row_bytes, pitch_px }; the guard is dropped as the function returns.
Returned(t, raw) == bufReturned \cup {[key |-> bc[t].key, raw |-> raw]}

\* if let Some(existing) = guard.get(&key) { *existing }
BufHit(t) ==
    /\ bc[t].pc = "locked"
    /\ bc[t].op = "get_or_create"
    /\ CacheGet(bufCache, bc[t].key) # {}
    /\ \E e \in CacheGet(bufCache, bc[t].key) :
          /\ bc' = [bc EXCEPT ![t].pc = "done", ![t].raw = e.raw, ![t].hit = TRUE]
          /\ bufReturned' = Returned(t, e.raw)
    /\ bufLock' = 0
    /\ BufFrame
    /\ UNCHANGED <<backend, altKey, bufInit, bufCache, nextBuf, allocCalls, bufReleased,
                   bufOverReleased, nBufCalls, nBufCleanups, bufOverlap>>

\* else, FromPtr on metal: create_texture_buffer -> create_raw_buffer ->
\* [device newBufferWithLength:options:], which answers nil when the driver
\* refuses; the pointer is stored unchecked.
BufMissPtrMetal(t) ==
    /\ bc[t].pc = "locked"
    /\ bc[t].op = "get_or_create"
    /\ backend = "metal"
    /\ bc[t].args.form = "ptr"
    /\ CacheGet(bufCache, bc[t].key) = {}
    /\ allocCalls' = [allocCalls EXCEPT ![bc[t].key] = @ + 1]
    /\ \E raw \in {Null, nextBuf} :
          /\ nextBuf' = IF raw = Null THEN nextBuf ELSE nextBuf + 1
          /\ bufCache' = CacheInsert(bufCache, bc[t].key, raw)
          /\ bc' = [bc EXCEPT ![t].pc = "done", ![t].raw = raw,
                              ![t].allocs = @ + 1]
          /\ bufReturned' = Returned(t, raw)
    /\ bufLock' = 0
    /\ BufFrame
    /\ UNCHANGED <<backend, altKey, bufInit, bufReleased, bufOverReleased, nBufCalls,
                   nBufCleanups, bufOverlap>>

\* else, FromSuite: the memory allocated before the lookup is inserted.
BufMissSuite(t) ==
    /\ bc[t].pc = "locked"
    /\ bc[t].op = "get_or_create"
    /\ bc[t].args.form = "suite"
    /\ CacheGet(bufCache, bc[t].key) = {}
    /\ bufCache' = CacheInsert(bufCache, bc[t].key, bc[t].allocated)
    /\ bc' = [bc EXCEPT ![t].pc = "done", ![t].raw = bc[t].allocated]
    /\ bufReturned' = Returned(t, bc[t].allocated)
    /\ bufLock' = 0
    /\ BufFrame
    /\ UNCHANGED <<backend, altKey, bufInit, nextBuf, allocCalls, bufReleased,
                   bufOverReleased, nBufCalls, nBufCleanups, bufOverlap>>

\* else, cuda: create_raw_buffer is todo!(): the call panics; unwinding
\* drops the guard.
BufMissCuda(t) ==
    /\ bc[t].pc = "locked"
    /\ bc[t].op = "get_or_create"
    /\ backend = "cuda"
    /\ CacheGet(bufCache, bc[t].key) = {}
    /\ bc' = [bc EXCEPT ![t].pc = "panic"]
    /\ bufLock' = 0
    /\ BufFrame
    /\ UNCHANGED <<backend, altKey, bufInit, bufCache, nextBuf, allocCalls, bufReleased,
                   bufOverReleased, bufReturned, nBufCalls, nBufCleanups,
                   bufOverlap>>

\* ------------------------------------------------------------ buffer cleanup
\* metal: if let Some(map) = CACHE.get() { let mut guard = map.lock(); ... }
\* cuda:  todo!("Implement clean for CUDA backend") panics at once.
BufCleanupBegin(t) ==
    /\ CanCall(t)
    /\ nBufCalls < MaxBufCalls
    /\ bc' = [bc EXCEPT ![t] =
                 [pc |-> IF backend = "cuda" THEN "panic"
                         ELSE IF bufInit THEN "lock" ELSE "done",
                  op |-> "cleanup", drained |-> {}, cachedBefore |-> {}]]
    /\ nBufCalls' = nBufCalls + 1
    /\ bufOverlap' = (bufOverlap \/ \E u \in Threads \ {t} : InCall(u))
    /\ BufFrame
    /\ UNCHANGED <<backend, altKey, bufInit, bufCache, bufLock, nextBuf, allocCalls,
                   bufReleased, bufOverReleased, bufReturned, nBufCleanups>>

\* The non-null raw pointers of the drained entries: if !b.raw.is_null()
NonNullRaws(cache) == {e.raw : e \in {x \in cache : x.raw # Null}}

\* Raw pointers held by more than one drained entry (each entry is released).
RawsHeldTwice(cache) ==
    {h \in NonNullRaws(cache) : Cardinality({e \in cache : e.raw = h}) > 1}

\* for (_, b) in guard.drain() { if !b.raw.is_null() { [b.raw release] } }
\* drain() empties the map; the guard is dropped at the end of the block.
BufCleanupDrain(t) ==
    /\ bc[t].pc = "locked"
    /\ bc[t].op = "cleanup"
    /\ bufReleased' = bufReleased \cup NonNullRaws(bufCache)
    /\ bufOverReleased' = bufOverReleased
                            \cup (bufReleased \cap NonNullRaws(bufCache))
                            \cup RawsHeldTwice(bufCache)
    /\ bufCache' = {}
    /\ bufLock' = 0
    /\ bufReturned' = {}
    /\ nBufCleanups' = nBufCleanups + 1
    /\ bc' = [bc EXCEPT ![t].pc = "done", ![t].drained = NonNullRaws(bufCache),
                        ![t].cachedBefore = bufCache]
    /\ BufFrame
    /\ UNCHANGED <<backend, altKey, bufInit, nextBuf, allocCalls, nBufCalls, bufOverlap>>


\* ===================================================== buffer sizes
\* compute_row_bytes and compute_length_bytes of
\* gpu/backends/{metal,cuda}/buffer.rs, and the stride fields of the view.
\* A number is the sequence of its base-256 digits, least significant
\* first: 4 digits for a u32, 8 for a u64.
Base == 256
U32Digits == 4
U64Digits == 8

U32Max == [k \in 1..U32Digits |-> Base - 1]

\* `x as u64`, and any other widening.
Widen(a, n) == [k \in 1..n |-> IF k <= Len(a) THEN a[k] ELSE 0]

Low(a, n) == SubSeq(a, 1, n)
HighIsZero(a, n) == \A k \in (n + 1)..Len(a) : a[k] = 0

\* The sum of the digit products that fall on digit k of a product.
Column(a, b, k) ==
    LET pairs == {i \in 1..Len(a) : k + 1 - i \in 1..Len(b)}
        RECURSIVE Sum(_)
        Sum(S) == IF S = {} THEN 0
                  ELSE LET i == CHOOSE x \in S : TRUE
                       IN a[i] * b[k + 1 - i] + Sum(S \ {i})
    IN Sum(pairs)

RECURSIVE Carried(_, _, _)
Carried(cols, k, carry) ==
    IF k > Len(cols) THEN <<>>
    ELSE <<(cols[k] + carry) % Base>> \o Carried(cols, k + 1, (cols[k] + carry) \div Base)

\* The exact product of two numbers, Len(a) + Len(b) digits long.
Product(a, b) == Carried([k \in 1..(Len(a) + Len(b)) |-> Column(a, b, k)], 1, 0)

\* u32::saturating_mul
SaturatingMul(a, b) ==
    IF HighIsZero(Product(a, b), U32Digits) THEN Low(Product(a, b), U32Digits)
    ELSE U32Max

\* `a * b` on u64: the product when it fits; otherwise a panic in a build
\* with overflow checks and the low 64 bits in one without.
\* Its result says whether the evaluation panicked, and the value if not.
Panicked == [panic |-> TRUE, value |-> <<>>]
Value(v) == [panic |-> FALSE, value |-> v]

MulU64(a, b) ==
    IF a.panic \/ b.panic THEN Panicked
    ELSE IF HighIsZero(Product(a.value, b.value), U64Digits)
              THEN Value(Low(Product(a.value, b.value), U64Digits))
         ELSE IF overflowChecks THEN Panicked
              ELSE Value(Low(Product(a.value, b.value), U64Digits))

\* fn compute_row_bytes(width: u32, bytes_per_pixel: u32) -> u32
ComputeRowBytes(width, bytes_per_pixel) == SaturatingMul(width, bytes_per_pixel)

\* fn compute_length_bytes(width: u32, height: u32, bytes_per_pixel: u32) -> u64
\* (width as u64) * (height as u64) * (bytes_per_pixel as u64)
ComputeLengthBytes(width, height, bytes_per_pixel) ==
    MulU64(MulU64(Value(Widen(width, U64Digits)), Value(Widen(height, U64Digits))),
           Value(Widen(bytes_per_pixel, U64Digits)))

U32Of(lo, hi) == <<lo % Base, lo \div Base, hi % Base, hi \div Base>>

\* 0, 1, 2, 16, 65535, 65536, 2^31 and 2^32 - 1
U32Samples == {U32Of(0, 0), U32Of(1, 0), U32Of(2, 0), U32Of(16, 0), U32Of(65535, 0),
               U32Of(0, 1), U32Of(0, 32768), U32Of(65535, 65535)}

NoView == [op |-> "none"]

\* The calls of get_or_create over the sample sizes, hit or miss.
SizeCalls ==
    {[op |-> "called", width |-> w, height |-> h, bytes_per_pixel |-> b, hit |-> hit] :
        w \in U32Samples, h \in U32Samples, b \in U32Samples, hit \in BOOLEAN}

\* One get_or_create seen for its arithmetic alone: on a miss the length
\* asked of the allocator, on a hit none; then row_bytes and pitch_px of
\* the view.  A panic in compute_length_bytes ends the call with no view.
SizeCall ==
    /\ SizeFrame
    /\ szView.op = "called"
    /\ LET w == szView.width
           h == szView.height
           b == szView.bytes_per_pixel
           length == IF szView.hit THEN Value(<<>>) ELSE ComputeLengthBytes(w, h, b)
       IN szView' = [op |-> "get_or_create", width |-> w, height |-> h,
                     bytes_per_pixel |-> b, hit |-> szView.hit, length |-> length,
                     returned |-> ~length.panic,
                     row_bytes |-> ComputeRowBytes(w, b), pitch_px |-> w]
    /\ UNCHANGED overflowChecks

\* ======================================================== kernel cache
\* gpu/backends/{metal,cuda}/pipeline.rs and the dispatch entry point run()
\* of gpu/backends/{metal,cuda}/mod.rs.

\* total number of calls (get_pso_pair, cleanup, hot_reload) in a run of the
\* kernel cache
MaxKernCalls == 3
\* total number of calls (run, cleanup, hot_reload) in a run of dispatches
MaxRunCalls == 2

\* ---------------------------------------------------------------- inputs
\* Configuration (types/config.rs) with the shader source and entry point
\* that declare_kernel! passes along.  context_handle is Option<*mut c_void>:
\* NoneHandle for None, or Some(pointer) written as the pointer.
NoneHandle == -1

BaseInput ==
    [device_handle |-> 1, context_handle |-> 1, command_queue_handle |-> 1,
     outgoing_data |-> 1, incoming_data |-> 1, dest_data |-> 1,
     outgoing_pitch_px |-> 4, incoming_pitch_px |-> 5, dest_pitch_px |-> 6,
     width |-> 1000, height |-> 1, is16f |-> FALSE, progress |-> 1,
     user_params |-> "u", shader_src |-> "X", entry |-> "e"]

AllInputs ==
    [device_handle : {Null, 1, 2}, context_handle : {NoneHandle, Null, 1, 2},
     command_queue_handle : {Null, 1}, outgoing_data : {Null, 1},
     incoming_data : {Null, 1}, dest_data : {Null, 1},
     outgoing_pitch_px : {-1, 4}, incoming_pitch_px : {5}, dest_pitch_px : {-3, 6},
     width : {1, 17, 1000}, height : {1, 17}, is16f : BOOLEAN, progress : {1, 2},
     user_params : {"u"}, shader_src : {"X", "Y"}, entry : {"e", "f"}]

\* The handles, the precision flag and the kernel named by a call, and the
\* numbers that describe the frame.
InputFields == {"device_handle", "context_handle", "command_queue_handle",
                "outgoing_data", "incoming_data", "dest_data", "is16f",
                "shader_src", "entry"}
FrameFields == {"outgoing_pitch_px", "incoming_pitch_px", "dest_pitch_px",
                "width", "height", "progress"}

InputFieldsDiffering(i1, i2) == {f \in InputFields : i1[f] # i2[f]}

\* The second input of a run differs from BaseInput in exactly one field
\* among the handles, the flag and the kernel, on the same frame.
AltInputs ==
    {i \in AllInputs : /\ Cardinality(InputFieldsDiffering(i, BaseInput)) = 1
                       /\ \A f \in FrameFields : i[f] = BaseInput[f]}

\* The second input of a run of direct get_pso_pair calls: what the call
\* takes is the device or context, the device handle, the source and the
\* entry point.
KernelInputs ==
    {i \in AltInputs :
        /\ InputFieldsDiffering(i, BaseInput) \subseteq
               {"device_handle", "context_handle", "shader_src", "entry"}
        /\ i.context_handle # NoneHandle}

\* The second input of a run of dispatches: the kernel of BaseInput with one
\* handle missing.
HandleFields == {"device_handle", "context_handle", "command_queue_handle",
                 "outgoing_data", "incoming_data", "dest_data"}

HandleInputs ==
    {i \in AltInputs : \E f \in HandleFields : i[f] \in {Null, NoneHandle}}

\* The second input of a run of valid dispatches of one kernel: any frame,
\* either precision.
FrameInputs ==
    {i \in AllInputs : \A f \in InputFields \ {"is16f"} : i[f] = BaseInput[f]}

\* threadExecutionWidth and maxTotalThreadsPerThreadgroup of a pipeline.
BaseReported == [tew |-> 32, max_threads |-> 1024]
AllReported ==
    {BaseReported, [tew |-> 32, max_threads |-> 256],
     [tew |-> 64, max_threads |-> 512], [tew |-> 0, max_threads |-> 0]}

Inputs == {BaseInput, altIn}

\* fn hash_str(s) -> u64 (DefaultHasher), on the strings of the model.
HashStr(s) ==
    CASE s = "X" -> 7301
      [] s = "Y" -> 1942
      [] s = "e" -> 5566
      [] s = "f" -> 3087

\* The device argument of get_pso_pair: run() passes config.device_handle on
\* metal and config.context_handle.unwrap() on cuda.
KeyDevice(in) == IF backend = "metal" THEN in.device_handle ELSE in.context_handle

\* Mutant of KernelKey: the entry point is left out of the key.
KernelKeyWithoutEntry(in) ==
    IF backend = "metal"
    THEN [device |-> in.device_handle, src_hash |-> HashStr(in.shader_src)]
    ELSE [ctx |-> in.context_handle]

\* metal: Key { device, src_hash: hash_str(shader_src), name_hash: hash_str(fname) }
\* cuda:  let key = (ctx as usize, fname);
KernelKey(in) ==
    IF backend = "metal"
    THEN [device |-> in.device_handle, src_hash |-> HashStr(in.shader_src),
          name_hash |-> HashStr(in.entry)]
    ELSE [ctx |-> in.context_handle, name |-> in.entry]

\* guard.get(&key)
KCacheGet(cache, key) == {e \in cache : e.key = key}

\* guard.insert(key, pair): replaces the entry under key.
KCacheInsert(cache, key, pair) ==
    {e \in cache : e.key # key} \cup {[key |-> key, pair |-> pair]}

\* What a caller means by a kernel: (device, source text, entry point).
ReqOf(in) == [device |-> KeyDevice(in), src |-> in.shader_src, entry |-> in.entry]

DataHandles == {"outgoing_data", "incoming_data", "dest_data"}

\* Mutant of RunPrecheck: dest_data is not checked.
RunPrecheckWithoutDest(in) ==
    IF backend = "metal"
    THEN IF in.device_handle = Null \/ in.command_queue_handle = Null
         THEN "Invalid device or command queue handle"
         ELSE IF in.outgoing_data = Null \/ in.incoming_data = Null
              THEN "null buffers"
              ELSE "ok"
    ELSE IF in.context_handle = NoneHandle \/ in.command_queue_handle = Null
         THEN "Invalid CUDA handles"
         ELSE IF in.outgoing_data = Null \/ in.incoming_data = Null
              THEN "null buffers"
              ELSE "ok"

\* run(): the two handle checks that open the function.
RunPrecheck(in) ==
    IF backend = "metal"
    THEN IF in.device_handle = Null \/ in.command_queue_handle = Null
         THEN "Invalid device or command queue handle"
         ELSE IF \E f \in DataHandles : in[f] = Null
              THEN "null buffers"
              ELSE "ok"
    ELSE IF in.context_handle = NoneHandle \/ in.command_queue_handle = Null
         THEN "Invalid CUDA handles"
         ELSE IF \E f \in DataHandles : in[f] = Null
              THEN "null buffers"
              ELSE "ok"

\* cuda get_pso_pair: if ctx.is_null() { return Err("null context") }
GetPsoPairPrecheck(in) ==
    IF backend = "cuda" /\ in.context_handle = Null THEN "null context" ELSE "ok"

\* ------------------------------------------------------- thread-local call
KIdle == [pc |-> "idle", op |-> "none"]

KInCall(t) == kc[t].pc \notin {"idle", "done"}

\* The frame of a run() or get_pso_pair() call.  lookups, f32n, f16n, native
\* and submitted count what the call has done so far; got says get_pso_pair
\* answered Ok; before is what get_pso_pair had returned when the call began.
\* launch is what run() staged for the launch; created and released are the
\* native objects run() made for this call and those gone when it returned;
\* completed says the submitted work ran to its end without error; outcome
\* and timing are how the launch and the timing calls went, steps the native
\* calls made from the submission on, waits the blocking ones.  nvrtc32
\* and nvrtc16 are NVRTC's answers to the attempts at each variant, att32
\* and att16 the number of attempts; hot is what the hot-reload read of the
\* shader file came to and raw_src the text handed to the compiler (empty
\* while none has been chosen); orphans are the native objects the
\* compilation made that are neither in the cache nor released on return.
NewKCall(op, in, pc, res) ==
    [pc |-> pc, op |-> op, in |-> in, res |-> res, hit |-> FALSE,
     pair |-> [id |-> 0], lookups |-> 0, f32n |-> 0, f16n |-> 0,
     native |-> FALSE, submitted |-> FALSE, got |-> FALSE,
     before |-> kReturned,
     launch |-> <<>>, created |-> {}, released |-> {}, completed |-> FALSE,
     outcome |-> "none", timing |-> "unasked", steps |-> <<>>, waits |-> {},
     nvrtc32 |-> <<>>, nvrtc16 |-> <<>>, att32 |-> 0, att16 |-> 0,
     hot |-> "unasked", raw_src |-> "",
     orphans |-> {}]

KInit ==
    /\ kInit = FALSE
    /\ kCache = {}
    /\ kc = [t \in Threads |-> KIdle]
    /\ nextJob = 1
    /\ kReturned = {}
    /\ kReleased = {}
    /\ kOverReleased = {}
    /\ nKCalls = 0
    /\ nKCleanups = 0
    /\ kOverlap = FALSE

KStartCall(t) ==
    /\ ~KInCall(t)
    /\ nKCalls < kBudget
    /\ nKCalls' = nKCalls + 1
    /\ kOverlap' = (kOverlap \/ \E u \in Threads \ {t} : KInCall(u))

\* ------------------------------------------------------------ get_pso_pair
\* get_pso_pair returns Ok((full, half)) to its caller: a direct call is
\* over, run() goes on to the launch.
AfterGetPsoPair(op) == IF op = "run" THEN "launch" ELSE "done"
ResAfterGetPsoPair(op) == IF op = "run" THEN "none" ELSE "ok"

\* The head of get_pso_pair, entered from op with input in; pre is the
\* outcome of the handle checks that precede the lookup.
\*   let guard = map.lock(); if let Some(p) = guard.get(&key) { return Ok(..) }
\* The guard is dropped before anything is compiled.
KLookup(t, op, in, pre) ==
    IF pre # "ok"
    THEN /\ kc' = [kc EXCEPT ![t] = NewKCall(op, in, "done", pre)]
         /\ UNCHANGED <<kInit, kReturned>>
    ELSE /\ kInit' = TRUE
         /\ IF KCacheGet(kCache, KernelKey(in)) # {}
            THEN \E e \in KCacheGet(kCache, KernelKey(in)) :
                    /\ kc' = [kc EXCEPT ![t] =
                          [NewKCall(op, in, AfterGetPsoPair(op), ResAfterGetPsoPair(op))
                              EXCEPT !.hit = TRUE, !.pair = e.pair, !.lookups = 1,
                                     !.got = TRUE]]
                    /\ kReturned' = kReturned \cup {[req |-> ReqOf(in), pair |-> e.pair]}
            ELSE /\ kc' = [kc EXCEPT ![t] =
                          [NewKCall(op, in, "compile", "none") EXCEPT !.lookups = 1]]
                 /\ UNCHANGED kReturned

\* A direct call of get_pso_pair(device, shader_src, fname) (metal) or
\* get_pso_pair(ctx, shader_src, fname, device_handle) (cuda: ctx is a raw
\* pointer, never None), up to the end of the lookup.
KernBegin(t) ==
    /\ KStartCall(t)
    /\ KernFrame
    /\ \E in \in Inputs :
          /\ in.context_handle # NoneHandle
          /\ KLookup(t, "get_pso_pair", in, GetPsoPairPrecheck(in))
    /\ UNCHANGED <<kCache, nextJob, kReleased, kOverReleased, nKCleanups>>

\* The handle checks of run() followed by those of get_pso_pair.
RunChecks(in) ==
    IF RunPrecheck(in) # "ok" THEN RunPrecheck(in) ELSE GetPsoPairPrecheck(in)

\* run(config, user_params, shader_src, entry): the handle checks, then the
\* call of get_pso_pair up to the end of the lookup.
RunBegin(t) ==
    /\ KStartCall(t)
    /\ KernFrame
    /\ \E in \in Inputs : KLookup(t, "run", in, RunChecks(in))
    /\ UNCHANGED <<kCache, nextJob, kReleased, kOverReleased, nKCleanups>>

\* The stages of a miss, in order, each of which can fail the call.
\* metal: newLibraryWithSource (f32), newLibraryWithSource (f16),
\*        newFunctionWithName, newComputePipelineStateWithFunction.
\* cuda:  cuCtxSetCurrent, compile_ptx(f32) [null device handle,
\*        compute_capability, NVRTC], compile_ptx(f16), load_module_and_func
\*        (f32), load_module_and_func (f16).
MetalStages == {"lib_f32", "lib_f16", "func", "pso"}
CudaStages == {"set_ctx", "dev_null", "cc_f32", "nvrtc_f32", "cc_f16",
               "nvrtc_f16", "load_f32", "load_f16"}

\* The outcomes the driver can produce for this input: "ok" or the stage
\* that failed.  A nil device makes every metal message answer nil; a null
\* device handle stops compile_ptx.
CompileOutcomes(in) ==
    IF backend = "metal"
    THEN IF in.device_handle = Null THEN {"lib_f32"} ELSE MetalStages \cup {"ok"}
    ELSE IF in.device_handle = Null THEN {"set_ctx", "dev_null"}
         ELSE (CudaStages \ {"dev_null"}) \cup {"ok"}

\* Whether the full / half precision variant was handed to the compiler.
\* cuda sets the context current, and may fail there, before it chooses the
\* source; metal chooses it right after the lookup.
SourceChosen(outcome) == outcome # "set_ctx"

\* What the hot-reload block finds: fs::read_to_string fails, or
\* expand_includes_runtime returns Err, or it returns the flattened text.
\* The block is compiled in only under
\* cfg(all(debug_assertions, shader_hotreload)).
HotAnswers(outcome) ==
    IF hotReload /\ SourceChosen(outcome)
    THEN {"unreadable", "bad_includes", "expanded"}
    ELSE {"unasked"}

\* The flattened text of shaders/<fname>.metal or shaders/<fname>.cu.
OnDiskSrc(in) == "D"

\* A block that hands on whatever the expansion left.
RawSrcNoFallback(in, hot) ==
    IF hot = "expanded" THEN OnDiskSrc(in)
    ELSE IF hot = "unasked" THEN in.shader_src ELSE ""

\* raw_src: Cow::Owned(expanded) or Cow::Borrowed(shader_src).
RawSrc(in, hot) == IF hot = "expanded" THEN OnDiskSrc(in) ELSE in.shader_src

F32Compiled(outcome) == outcome \notin {"set_ctx", "dev_null", "cc_f32"}
F16Compiled(outcome) == outcome \notin {"set_ctx", "dev_null", "cc_f32",
                                        "nvrtc_f32", "cc_f16", "lib_f32"}

\* The error string get_pso_pair returns for a failed stage.
CompileError(outcome) ==
    CASE outcome = "lib_f32" -> "library f32 compile failed"
      [] outcome = "lib_f16" -> "library f16 compile failed"
      [] outcome = "func" -> "function not found"
      [] outcome = "pso" -> "pipeline failed"
      [] outcome = "dev_null" -> "null device handle"
      [] outcome \in {"nvrtc_f32", "nvrtc_f16"} -> "NVRTC compile error"
      [] OTHER -> "CUDA error"

\* NVRTC's answers to the two attempts compile_ptx can make at one variant:
\* with the --gpu-architecture hint, then without it.  An NVRTC that accepts
\* the hint compiles a good source at once and fails a bad one twice; one
\* that rejects the hint always fails the first attempt.
NvrtcAnswers ==
    IF archHint = "accepted"
    THEN {<<"ok", "unasked">>, <<"err", "err">>}
    ELSE {<<"err", "ok">>, <<"err", "err">>}

\* Mutant of CompilePtx: a failed first attempt fails the variant.
CompilePtxNoRetry(answers) ==
    IF answers[1] = "ok" THEN [ptx |-> TRUE, attempts |-> 1]
    ELSE [ptx |-> FALSE, attempts |-> 1]

\* compile_ptx: match compile_ptx_with_opts(src, opts) { Ok(ptx) => Ok(ptx),
\*   Err(e) => compile_ptx_with_opts(src, fallback_opts).map_err(..) }
CompilePtx(answers) ==
    IF answers[1] = "ok" THEN [ptx |-> TRUE, attempts |-> 1]
    ELSE IF answers[2] = "ok" THEN [ptx |-> TRUE, attempts |-> 2]
         ELSE [ptx |-> FALSE, attempts |-> 2]

\* The answers NVRTC can have given for a variant when the miss ended with
\* outcome: none where the variant never reached NVRTC (and on metal), the
\* failing ones where compile_ptx of the variant failed, the others otherwise.
AnswersFor(outcome, reached, failedHere) ==
    IF backend = "metal" \/ ~reached THEN {<<>>}
    ELSE IF outcome = failedHere
         THEN {a \in NvrtcAnswers : ~CompilePtx(a).ptx}
         ELSE {a \in NvrtcAnswers : CompilePtx(a).ptx}

\* Number of times the compiler was run on a variant.
Attempts(reached, answers) ==
    IF ~reached THEN 0 ELSE IF answers = <<>> THEN 1 ELSE CompilePtx(answers).attempts

\* Native objects the miss path has made and not released when it returns
\* without having stored them in the cache.
\* metal: lib_f32 and lib_f16 are not released on the error returns that
\*        follow them, and lib_f16 is not stored in Pipelines nor released
\*        on the Ok return.
\* cuda:  module_f32 is not unloaded when loading the f16 module fails.
Orphans(outcome, id) ==
    CASE outcome = "lib_f16" -> {<<id, "lib_f32">>}
      [] outcome \in {"func", "pso"} -> {<<id, "lib_f32">>, <<id, "lib_f16">>}
      [] outcome = "load_f16" -> {<<id, "module_f32">>}
      [] outcome = "ok" /\ backend = "metal" -> {<<id, "lib_f16">>}
      [] OTHER -> {}

\* Mutant of CacheAfterCompile: a pair whose second half failed is stored.
CacheAfterCompileHalfBuilt(cache, key, pair, outcome) ==
    IF outcome \in {"ok", "lib_f16", "nvrtc_f16", "load_f16"}
    THEN KCacheInsert(cache, key, pair)
    ELSE cache

\* The map when the miss path returns: the insert is reached only when every
\* stage succeeded.
CacheAfterCompile(cache, key, pair, outcome) ==
    IF outcome = "ok" THEN KCacheInsert(cache, key, pair) ELSE cache

\* The miss path: the source is compiled twice with no lock held, then
\*   { let mut guard = map.lock(); guard.insert(key, pair); }  Ok((full, half))
\* Compilation reads and writes nothing shared, so it is taken together with
\* the insert that follows it; the lock is free between the lookup and this
\* step.  The pair remembers the source text it was compiled from.
KCompile(t) ==
    /\ kc[t].pc = "compile"
    /\ KernFrame
    /\ \E outcome \in CompileOutcomes(kc[t].in) :
       \E hot \in HotAnswers(outcome) :
       \E a32 \in AnswersFor(outcome, F32Compiled(outcome), "nvrtc_f32") :
       \E a16 \in AnswersFor(outcome, F16Compiled(outcome), "nvrtc_f16") :
          LET pair == [id |-> nextJob, src |-> RawSrc(kc[t].in, hot),
                       entry |-> kc[t].in.entry]
              counted == [kc[t] EXCEPT
                            !.hot = hot,
                            !.raw_src = IF SourceChosen(outcome)
                                        THEN RawSrc(kc[t].in, hot) ELSE @,
                            !.f32n = IF F32Compiled(outcome) THEN @ + 1 ELSE @,
                            !.f16n = IF F16Compiled(outcome) THEN @ + 1 ELSE @,
                            !.nvrtc32 = a32, !.nvrtc16 = a16,
                            !.att32 = Attempts(F32Compiled(outcome), a32),
                            !.att16 = Attempts(F16Compiled(outcome), a16),
                            !.orphans = Orphans(outcome, nextJob),
                            !.native = TRUE]
          IN /\ kCache' = CacheAfterCompile(kCache, KernelKey(kc[t].in), pair, outcome)
             /\ IF outcome = "ok"
                THEN /\ kc' = [kc EXCEPT ![t] =
                           [counted EXCEPT !.pc = AfterGetPsoPair(kc[t].op),
                                           !.res = ResAfterGetPsoPair(kc[t].op),
                                           !.pair = pair, !.got = TRUE]]
                     /\ nextJob' = nextJob + 1
                     /\ kReturned' = kReturned \cup {[req |-> ReqOf(kc[t].in), pair |-> pair]}
                ELSE /\ kc' = [kc EXCEPT ![t] =
                           [counted EXCEPT !.pc = "done", !.res = CompileError(outcome)]]
                     /\ UNCHANGED <<nextJob, kReturned>>
    /\ UNCHANGED <<kInit, kReleased, kOverReleased, nKCalls, nKCleanups, kOverlap>>

\* ---------------------------------------------------------- run: the launch
\* get_pso_pair answers Ok((full, half)): the two members of a pair.
PsoFull(pair) == <<pair.id, "f32">>
PsoHalf(pair) == <<pair.id, "f16">>

\* Mutant of SelectPipeline: the members are taken the other way round.
SelectPipelineSwapped(pair, is16f) == IF is16f THEN PsoFull(pair) ELSE PsoHalf(pair)

\* let pipeline = if config.is16f { pso_f16 } else { pso_f32 };
SelectPipeline(pair, is16f) == IF is16f THEN PsoHalf(pair) ELSE PsoFull(pair)

\* `x as u32` of an i32: the same 32 bits read as an unsigned number.  A u32
\* is written as its two 16-bit halves, [hi, lo] standing for hi * 2^16 + lo.
AsU32(x) == [hi |-> (x \div 65536) % 65536, lo |-> x % 65536]

\* TransitionParams { out_pitch: config.outgoing_pitch_px as u32, .. }
MakeTransitionParams(in) ==
    [out_pitch |-> AsU32(in.outgoing_pitch_px),
     in_pitch |-> AsU32(in.incoming_pitch_px),
     dest_pitch |-> AsU32(in.dest_pitch_px),
     width |-> in.width, height |-> in.height, progress |-> in.progress]

\* Mutant of ArgumentSlots: the two source buffers change places.
ArgumentSlotsSwapped(in, tp) ==
    <<[arg |-> "incoming_data", val |-> in.incoming_data],
      [arg |-> "outgoing_data", val |-> in.outgoing_data],
      [arg |-> "dest_data", val |-> in.dest_data],
      [arg |-> "transition_params", val |-> tp],
      [arg |-> "user_params", val |-> in.user_params]>>

\* metal: setBuffer: .. atIndex: 0..4;  cuda: params: [*mut c_void; 5].
\* Element i + 1 of the sequence is what is bound to slot i.
ArgumentSlots(in, tp) ==
    <<[arg |-> "outgoing_data", val |-> in.outgoing_data],
      [arg |-> "incoming_data", val |-> in.incoming_data],
      [arg |-> "dest_data", val |-> in.dest_data],
      [arg |-> "transition_params", val |-> tp],
      [arg |-> "user_params", val |-> in.user_params]>>

\* Mutant of DivCeil: the division rounds down.
DivFloor(a, b) == a \div b

\* a.div_ceil(b)
DivCeil(a, b) == IF a % b > 0 THEN (a \div b) + 1 ELSE a \div b

Maximum(a, b) == IF a > b THEN a ELSE b
Clamp(x, lo, hi) == IF x < lo THEN lo ELSE IF x > hi THEN hi ELSE x

\* metal: tg_w = tew.max(1); tg_h = (max_threads / tg_w).clamp(1, 16)
\* cuda:  block_x = 16; block_y = 16
BlockShape ==
    IF backend = "metal"
    THEN [w |-> Maximum(reported.tew, 1),
          h |-> Clamp(reported.max_threads \div Maximum(reported.tew, 1), 1, 16)]
    ELSE [w |-> 16, h |-> 16]

\* groups_x = width.div_ceil(tg_w); groups_y = height.div_ceil(tg_h)
GridShape(in, block) ==
    [w |-> DivCeil(in.width, block.w), h |-> DivCeil(in.height, block.h)]

\* What run() stages for the launch.
StagedLaunch(in, pair) ==
    [pipeline |-> SelectPipeline(pair, in.is16f),
     tp |-> MakeTransitionParams(in),
     slots |-> ArgumentSlots(in, MakeTransitionParams(in)),
     block |-> BlockShape,
     grid |-> GridShape(in, BlockShape)]

\* How the rest of run() can end: "ok" or the step that went wrong.
\* metal: the two newBufferWithBytes, commandBuffer, computeCommandEncoder
\*        answering nil; the committed command buffer ending in error.
\* cuda:  cuCtxSetCurrent or cuLaunchKernel refused; the launched kernel
\*        failing, which cuStreamSynchronize reports in a build with
\*        debug_assertions and nothing reports in one without.
LaunchOutcomes ==
    IF backend = "metal"
    THEN {"ok", "tp_buffer", "up_buffer", "cmd", "enc", "gpu_error"}
    ELSE {"ok", "set_ctx", "launch",
          IF debugAssertions THEN "exec_error_checked" ELSE "exec_error_unchecked"}

\* The value run() returns.
LaunchResult(outcome) ==
    CASE outcome = "tp_buffer" -> "Failed to create Metal params buffer"
      [] outcome = "up_buffer" -> "Failed to create Metal user params buffer"
      [] outcome = "cmd" -> "Failed to create Metal command buffer"
      [] outcome = "enc" -> "Failed to create Metal command encoder"
      [] outcome \in {"set_ctx", "launch", "exec_error_checked"} -> "CUDA error"
      [] OTHER -> "ok"

\* The launch was handed to the device (commit / cuLaunchKernel accepted).
LaunchSubmitted(outcome) ==
    outcome \in {"ok", "gpu_error", "exec_error_checked", "exec_error_unchecked"}

\* Native objects run() has created when it returns.
CreatedDuring(outcome) ==
    IF backend = "metal"
    THEN CASE outcome = "tp_buffer" -> {}
           [] outcome = "up_buffer" -> {"transition_params_buffer"}
           [] outcome = "cmd" -> {"transition_params_buffer", "user_params_buffer"}
           [] outcome = "enc" -> {"transition_params_buffer", "user_params_buffer", "cmd"}
           [] OTHER -> {"transition_params_buffer", "user_params_buffer", "cmd", "enc"}
    ELSE {"start_event", "end_event"}

\* Those of them that are gone when run() has returned.
\* metal: cmd and enc are autoreleased and the pool is drained on return;
\*        nothing releases the two parameter buffers.
\* cuda:  cuEventDestroy is reached only when dispatch(..)? did not return.
ReleasedAtReturn(outcome) ==
    IF backend = "metal"
    THEN CreatedDuring(outcome) \cap {"cmd", "enc"}
    ELSE IF LaunchResult(outcome) = "ok" THEN {"start_event", "end_event"} ELSE {}

\* What the timing calls around the launch answer.
\* metal: GPUStartTime and GPUEndTime answer numbers, zeros when the command
\*        buffer has no times.
\* cuda:  cuEventCreate, cuEventRecord(end_event, ..) or cuEventElapsedTime
\*        refused; run() looks at none of their results.
TimingAnswers ==
    IF backend = "metal" THEN {"ok", "no_times"} ELSE {"ok", "create", "record", "query"}

\* A run() that returns the timing failure.
RunResultTimingChecked(outcome, timing) ==
    IF LaunchResult(outcome) = "ok" /\ timing # "ok" THEN "timing unavailable"
    ELSE LaunchResult(outcome)

\* The value run() returns, given how the launch and the timing calls went.
RunResult(outcome, timing) == LaunchResult(outcome)

\* The native calls run() makes from the submission on, in order.
\* metal: commit, waitUntilCompleted, GPUStartTime, GPUEndTime.
\* cuda:  cuLaunchKernel; cuStreamSynchronize under cfg(debug_assertions),
\*        whose error returns; cuEventRecord(end_event), cuEventSynchronize,
\*        cuEventElapsedTime.
LaunchSteps(outcome) ==
    IF ~LaunchSubmitted(outcome) THEN <<>>
    ELSE IF backend = "metal"
         THEN <<"commit", "waitUntilCompleted", "GPUStartTime", "GPUEndTime">>
         ELSE <<"cuLaunchKernel">>
              \o (IF debugAssertions THEN <<"cuStreamSynchronize">> ELSE <<>>)
              \o (IF outcome = "exec_error_checked" THEN <<>>
                  ELSE <<"cuEventRecord", "cuEventSynchronize", "cuEventElapsedTime">>)

\* The calls that block the thread until the submitted work has ended.
\* cuEventSynchronize waits for the work the last cuEventRecord on the event
\* captured; on an event that was not created or not recorded it returns at
\* once.
BlockingCalls(timing) ==
    {"waitUntilCompleted", "cuStreamSynchronize"}
        \cup (IF timing \in {"create", "record"} THEN {} ELSE {"cuEventSynchronize"})

\* Those of them run() made.
WaitsMade(outcome, timing) ==
    {LaunchSteps(outcome)[i] : i \in DOMAIN LaunchSteps(outcome)} \cap BlockingCalls(timing)

\* The rest of run() once get_pso_pair has answered: the member of the pair
\* is chosen by is16f, the arguments are staged and bound, the launch is
\* submitted and waited for, the times are read.
RunLaunch(t) ==
    /\ kc[t].pc = "launch"
    /\ KernFrame
    /\ \E outcome \in LaunchOutcomes :
          kc' = [kc EXCEPT ![t].pc = "done",
                           ![t].res = RunResult(outcome, timingAnswer),
                           ![t].outcome = outcome,
                           ![t].timing = IF LaunchSteps(outcome) = <<>> THEN "unasked"
                                         ELSE timingAnswer,
                           ![t].steps = LaunchSteps(outcome),
                           ![t].waits = WaitsMade(outcome, timingAnswer),
                           ![t].native = TRUE,
                           ![t].submitted = LaunchSubmitted(outcome),
                           ![t].completed = (outcome = "ok"),
                           ![t].launch = StagedLaunch(kc[t].in, kc[t].pair),
                           ![t].created = CreatedDuring(outcome),
                           ![t].released = ReleasedAtReturn(outcome)]
    /\ UNCHANGED <<kInit, kCache, nextJob, kReturned, kReleased, kOverReleased,
                   nKCalls, nKCleanups, kOverlap>>

\* ------------------------------------------------- cleanup and hot_reload
\* The native objects cleanup releases for one cached pair.
\* metal: pso_full, pso_half, library;  cuda: module_f32, module_f16.
ReleasedOf(pair) ==
    IF backend = "metal"
    THEN {<<pair.id, "pso_f32">>, <<pair.id, "pso_f16">>, <<pair.id, "lib_f32">>}
    ELSE {<<pair.id, "module_f32">>, <<pair.id, "module_f16">>}

ReleasedOfAll(cache) == UNION {ReleasedOf(e.pair) : e \in cache}

\* Native objects get_pso_pair creates for a pair and still owns when it
\* returns Ok: metal newLibraryWithSource twice and
\* newComputePipelineStateWithFunction twice (the two functions are released
\* before the insert); cuda cuModuleLoadData twice (the functions belong to
\* their modules).
CreatedOf(id) ==
    IF backend = "metal"
    THEN {<<id, "lib_f32">>, <<id, "lib_f16">>, <<id, "pso_f32">>, <<id, "pso_f16">>}
    ELSE {<<id, "module_f32">>, <<id, "module_f16">>}

\* A cleanup that visits the entries and leaves them in the map.
CacheAfterCleanupKept(cache) == cache

\* guard.drain() leaves the map empty.
CacheAfterCleanup(cache) == {}

\* cleanup(), or hot_reload() which calls cleanup() and logs:
\* if let Some(map) = CACHE.get() { lock; for (_k, p) in guard.drain() {..} }
KCleanup(t) ==
    /\ KernFrame
    /\ KStartCall(t)
    /\ \E op \in {"cleanup", "hot_reload"} :
          kc' = [kc EXCEPT ![t] = [pc |-> "done", op |-> op, drained |-> kCache,
                                   built |-> nextJob - 1]]
    /\ IF kInit
       THEN /\ kCache' = CacheAfterCleanup(kCache)
            /\ kReleased' = kReleased \cup ReleasedOfAll(kCache)
            /\ kOverReleased' = kOverReleased \cup (kReleased \cap ReleasedOfAll(kCache))
            /\ kReturned' = {}
            /\ nKCleanups' = nKCleanups + 1
       ELSE UNCHANGED <<kCache, kReleased, kOverReleased, kReturned, nKCleanups>>
    /\ UNCHANGED <<kInit, nextJob>>

\* ================================================ run-time include expansion
\* gpu/shaders.rs.  A text is the sequence of its lines (text.lines()), a
\* line a sequence of symbols: the directive word, a blank, a quote
\* character, a path or any other word.
\* longest root source, in lines
MaxLines == 2
\* deepest nesting of expand_one the walk is followed to
MaxDepth == 4

Directive == "#include"
Blank == " "
DQuote == "\""
SQuote == "'"
Newline == "\n"

\* base_dir.join("__temp_runtime_root__.metal")
TmpRoot == "__temp_runtime_root__.metal"
FileNames == {"a", "b"}

\* Path::canonicalize: "./a" and "a" name the same file.
Canonicalize(p) == IF p = "./a" THEN "a" ELSE p

IncA == <<Directive, Blank, DQuote, "a", DQuote>>
IncAAlias == <<Directive, DQuote, "./a", DQuote>>
IncBPadded == <<Blank, Directive, Blank, Blank, DQuote, "b", DQuote, Blank>>
IncMissing == <<Directive, Blank, DQuote, "c", DQuote>>
IncTmpRoot == <<Directive, Blank, DQuote, TmpRoot, DQuote>>
IncAngle == <<Directive, Blank, "<", "a", ">">>
IncSingle == <<Directive, Blank, SQuote, "a", SQuote>>
IncTrailing == <<Directive, Blank, DQuote, "a", DQuote, Blank, "x">>
TextPadded == <<Blank, "x", Blank>>
TextPlain == <<"y">>

RootLines == {IncA, IncBPadded, IncAngle, IncSingle, IncTrailing, TextPadded,
              IncMissing}
RootTexts == UNION {[1..n -> RootLines] : n \in 0..MaxLines}
TextsOfA == {<<TextPlain>>, <<TextPadded, IncBPadded>>, <<IncBPadded, TextPlain>>,
             <<IncA>>, <<IncAAlias>>, <<IncTmpRoot>>}
TextsOfB == {<<TextPlain>>, <<>>, <<IncA>>, <<IncMissing>>, <<IncSingle, TextPlain>>}
DiskImages == {[f \in FileNames |-> IF f = "a" THEN ta ELSE tb] :
                  ta \in TextsOfA, tb \in TextsOfB}
BaseDisk == [f \in FileNames |-> <<TextPlain>>]

\* str::trim on a line: what lies between its first and its last symbol
\* that is not white space.
Trim(s) ==
    LET ks == {k \in 1..Len(s) : s[k] # Blank}
    IN IF ks = {} THEN <<>>
       ELSE SubSeq(s, CHOOSE k \in ks : \A j \in ks : k <= j,
                      CHOOSE k \in ks : \A j \in ks : k >= j)

\* str::strip_prefix and str::strip_suffix: Option<&str>.
StripPrefix(s, p) ==
    IF s # <<>> /\ Head(s) = p THEN [some |-> TRUE, rest |-> Tail(s)]
    ELSE [some |-> FALSE, rest |-> <<>>]

StripSuffix(s, p) ==
    IF s # <<>> /\ s[Len(s)] = p
    THEN [some |-> TRUE, rest |-> SubSeq(s, 1, Len(s) - 1)]
    ELSE [some |-> FALSE, rest |-> <<>>]

NoInclude == [some |-> FALSE, rest |-> <<>>]

\* The one member of a singleton.
Only(S) == CHOOSE x \in S : TRUE

\* b is what strip_prefix of the opening quote gave: .and_then(strip_suffix).
Unquoted(b, q) == IF ~b.some THEN NoInclude ELSE StripSuffix(b.rest, q)

\* An expander that takes either quote character.
QuoteAt(r) == IF r # <<>> /\ Head(r) = SQuote THEN SQuote ELSE DQuote

IncludeOfAnyQuote(line) ==
    Only({IF ~a.some THEN NoInclude
          ELSE Only({Unquoted(StripPrefix(r, QuoteAt(r)), QuoteAt(r)) :
                        r \in {Trim(a.rest)}}) :
             a \in {StripPrefix(Trim(line), Directive)}})

\* l.strip_prefix("#include") then
\* rest.trim().strip_prefix('"').and_then(|s| s.strip_suffix('"'))
IncludeOf(line) ==
    Only({IF ~a.some THEN NoInclude
          ELSE Only({Unquoted(b, DQuote) : b \in {StripPrefix(Trim(a.rest), DQuote)}}) :
             a \in {StripPrefix(Trim(line), Directive)}})

\* The path a directive names; a name of several words names no file here.
IncPath(inc) == IF Len(inc) = 1 THEN inc[1] ELSE "?"

\* p.exists(), for parent.join(inc) and d.join(inc): every shader lives in
\* one directory.
Exists(p) ==
    \/ Canonicalize(p) \in DOMAIN disk
    \/ Canonicalize(p) = TmpRoot /\ incTmp

\* fs::read_to_string(&path)
TextAt(path) == IF path = TmpRoot THEN rootSrc ELSE disk[path]

\* A walk that keeps no record of the files it is inside.
OnStackNever(stack, path) == FALSE

\* stack.contains(&path)
OnStack(stack, path) == \E k \in 1..Len(stack) : stack[k] = path

\* A walker that leaves the path it has finished on the stack.
VisitedAfterReturnKept(visited) == visited

\* stack.pop()
VisitedAfterReturn(visited) == SubSeq(visited, 1, Len(visited) - 1)

IncIdle == [status |-> "none", out |-> <<>>, msg |-> ""]
IncErr(msg) == [status |-> "err", out |-> <<>>, msg |-> msg]
IncOk(out) == [status |-> "ok", out |-> out, msg |-> ""]

NewActivation(path) == [path |-> path, text |-> TextAt(path), i |-> 1, out |-> <<>>]

IncTop == incStack[Len(incStack)]
IncAtLine == incPc = "walking" /\ IncTop.i <= Len(IncTop.text)
IncLine == IncTop.text[IncTop.i]

IncStartState ==
    /\ incPc = "idle"
    /\ incTmp = FALSE
    /\ incStack = <<>>
    /\ incVisited = <<>>
    /\ incResult = IncIdle

\* expand_includes_runtime up to the first line of the root:
\* fs::write(&tmp, src)?; expand_one(&tmp, ..) canonicalizes, finds the
\* stack empty, reads the file back and pushes its path.
IncBegin ==
    /\ incPc = "idle"
    /\ IncFrame
    /\ \E src \in RootTexts, written \in BOOLEAN :
          /\ rootSrc' = src
          /\ IF written
             THEN /\ incTmp' = TRUE
                  /\ incStack' = <<[path |-> TmpRoot, text |-> src, i |-> 1,
                                    out |-> <<>>]>>
                  /\ incVisited' = <<TmpRoot>>
                  /\ incPc' = "walking"
                  /\ UNCHANGED incResult
             ELSE /\ incResult' = IncErr("write tmp")
                  /\ incPc' = "done"
                  /\ UNCHANGED <<incTmp, incStack, incVisited>>
    /\ UNCHANGED disk

\* A line that is no directive: out.push_str(line); out.push('\n').
IncCopyLine ==
    /\ IncAtLine
    /\ ~IncludeOf(IncLine).some
    /\ IncFrame
    /\ incStack' = [incStack EXCEPT ![Len(incStack)] =
                       [@ EXCEPT !.out = @ \o IncLine \o <<Newline>>, !.i = @ + 1]]
    /\ UNCHANGED <<disk, rootSrc, incPc, incTmp, incVisited, incResult>>

\* A directive: find the first candidate that exists, then enter
\* expand_one on it: canonicalize, refuse a path already on the stack, read
\* the file and push.  An Err is carried by `?` through every activation,
\* out of expand_one, and the temporary root is removed.
IncEnter ==
    /\ IncAtLine
    /\ IncludeOf(IncLine).some
    /\ IncFrame
    /\ LET inc == IncPath(IncludeOf(IncLine).rest)
           path == Canonicalize(inc)
       IN IF ~Exists(inc)
          THEN /\ incResult' = IncErr("include not found")
               /\ incPc' = "done"
               /\ incStack' = <<>>
               /\ incVisited' = <<>>
               /\ incTmp' = FALSE
          ELSE IF OnStack(incVisited, path)
               THEN /\ incResult' = IncErr("circular include")
                    /\ incPc' = "done"
                    /\ incStack' = <<>>
                    /\ incVisited' = <<>>
                    /\ incTmp' = FALSE
               ELSE /\ Len(incStack) < MaxDepth
                    /\ incStack' = Append(incStack, NewActivation(path))
                    /\ incVisited' = Append(incVisited, path)
                    /\ UNCHANGED <<incPc, incTmp, incResult>>
    /\ UNCHANGED <<disk, rootSrc>>

\* The end of a file: stack.pop(); Ok(out).  The caller appends the chunk
\* and a newline and goes on with its next line; the outermost caller
\* removes the temporary root and returns the result.
IncReturn ==
    /\ incPc = "walking"
    /\ IncTop.i > Len(IncTop.text)
    /\ IncFrame
    /\ IF Len(incStack) > 1
       THEN /\ incStack' =
                  [SubSeq(incStack, 1, Len(incStack) - 1) EXCEPT ![Len(incStack) - 1] =
                      [@ EXCEPT !.out = @ \o IncTop.out \o <<Newline>>, !.i = @ + 1]]
            /\ incVisited' = VisitedAfterReturn(incVisited)
            /\ UNCHANGED <<incPc, incTmp, incResult>>
       ELSE /\ incStack' = <<>>
            /\ incVisited' = <<>>
            /\ incResult' = IncOk(IncTop.out)
            /\ incPc' = "done"
            /\ incTmp' = FALSE
    /\ UNCHANGED <<disk, rootSrc>>

\* ===================================================== the cache locks
\* Where each cache operation takes and drops the lock of its cache.  Both
\* locks are parking_lot mutexes held through a guard, which is dropped at
\* the end of its scope, at a return and when a panic unwinds.
\* cache operations followed in one run
MaxLockCalls == 3

CacheLocks == {"buffer", "pipeline"}

LockOps == {"get_or_create", "buffer_cleanup", "get_pso_pair", "pipeline_cleanup",
            "hot_reload"}

\* buffer.rs operations lock the buffer CACHE, pipeline.rs operations the
\* pipeline CACHE.
LockOf(op) == IF op \in {"get_or_create", "buffer_cleanup"} THEN "buffer" ELSE "pipeline"

\* How an operation can end before it asks for the lock.
\* get_or_create:  metal FromSuite panics when allocate_device_memory or
\*                 device_info fails; cuda has nothing before the lock.
\* buffer cleanup: metal returns when CACHE.get() is None; cuda is todo!().
\* get_pso_pair:   cuda returns Err("null context"); metal has nothing before
\*                 the lock.
\* pipeline cleanup and hot_reload return when CACHE.get() is None.
ExitsBeforeLock(op) ==
    CASE op = "get_or_create" -> IF backend = "metal" THEN {"panicked"} ELSE {}
      [] op = "buffer_cleanup" -> IF backend = "metal" THEN {"returned"} ELSE {"panicked"}
      [] op = "get_pso_pair" -> IF backend = "metal" THEN {} ELSE {"returned"}
      [] OTHER -> {"returned"}

\* cuda's buffer cleanup is the only operation with no lock() in it.
ReachesLock(op) == ~(op = "buffer_cleanup" /\ backend = "cuda")

\* Where the thread is once the guard of a critical section is gone.
\* get_or_create: the view is returned; on cuda a miss panics in todo!().
\* get_pso_pair:  a hit returns, a miss goes on to compile with no lock held;
\*                after the insert the call returns.
\* cleanup, hot_reload: return.
AfterSection(op, pc) ==
    CASE op = "get_or_create" ->
             IF backend = "cuda" THEN {"returned", "panicked"} ELSE {"returned"}
      [] op = "get_pso_pair" /\ pc = "held" -> {"returned", "between"}
      [] OTHER -> {"returned"}

\* A guard that stays locked when the section is left by a panic.
GuardKeptOnPanic(owner, l, next) ==
    IF next = "panicked" THEN owner ELSE [owner EXCEPT ![l] = 0]

\* Drop of the MutexGuard: the lock is free again, however the section ended.
GuardDropped(owner, l, next) == [owner EXCEPT ![l] = 0]

LIdle == [op |-> "none", pc |-> "idle", sections |-> 0]

LInCall(t) == lc[t].pc \notin {"idle", "returned", "panicked"}

LockInit ==
    /\ lockOwner = [l \in CacheLocks |-> 0]
    /\ lc = [t \in Threads |-> LIdle]
    /\ nLockCalls = 0

\* A thread calls one of the cache operations.
LCallBegin(t) ==
    /\ ~LInCall(t)
    /\ nLockCalls < MaxLockCalls
    /\ LockFrame
    /\ \E op \in LockOps : lc' = [lc EXCEPT ![t] = [op |-> op, pc |-> "start", sections |-> 0]]
    /\ nLockCalls' = nLockCalls + 1
    /\ UNCHANGED lockOwner

\* What the operation does before its first lock(): it ends there, or goes
\* on to ask for the lock.
LBeforeLock(t) ==
    /\ lc[t].pc = "start"
    /\ LockFrame
    /\ \E next \in ExitsBeforeLock(lc[t].op)
                     \cup (IF ReachesLock(lc[t].op) THEN {"want"} ELSE {}) :
          lc' = [lc EXCEPT ![t].pc = next]
    /\ UNCHANGED <<lockOwner, nLockCalls>>

\* map.lock(): the thread waits until the lock is free and takes it.
LAcquire(t) ==
    /\ lc[t].pc \in {"want", "want2"}
    /\ lockOwner[LockOf(lc[t].op)] = 0
    /\ LockFrame
    /\ lockOwner' = [lockOwner EXCEPT ![LockOf(lc[t].op)] = t]
    /\ lc' = [lc EXCEPT ![t].pc = IF lc[t].pc = "want" THEN "held" ELSE "held2",
                        ![t].sections = @ + 1]
    /\ UNCHANGED nLockCalls

\* The critical section and the drop of its guard.
LGuardDrop(t) ==
    /\ lc[t].pc \in {"held", "held2"}
    /\ LockFrame
    /\ \E next \in AfterSection(lc[t].op, lc[t].pc) :
          /\ lockOwner' = GuardDropped(lockOwner, LockOf(lc[t].op), next)
          /\ lc' = [lc EXCEPT ![t].pc = next]
    /\ UNCHANGED nLockCalls

\* get_pso_pair between its lookup and its insert: the compilation fails
\* and the call returns Err, or it succeeds and the call asks for the lock
\* again.
LCompile(t) ==
    /\ lc[t].pc = "between"
    /\ LockFrame
    /\ \E next \in {"returned", "want2"} : lc' = [lc EXCEPT ![t].pc = next]
    /\ UNCHANGED <<lockOwner, nLockCalls>>

\* ========================================= concurrent include expansion
\* expand_includes_runtime called from several threads with one base_dir:
\* metal/pipeline.rs calls it with CARGO_MANIFEST_DIR/shaders for every
\* kernel, after the lookup lock is dropped.  Every call writes, reads back
\* and removes base_dir/__temp_runtime_root__.metal; the shader files
\* themselves are not written by anyone.
ParSources == {<<TextPlain>>, <<IncA, TextPadded>>, <<IncMissing>>}

NoTmpFile == [present |-> FALSE, text |-> <<>>]
TmpFileWith(text) == [present |-> TRUE, text |-> text]

\* expand_one on a text already read, `visited` being the stack at the
\* push: the lines from the i-th on.  Directives name shader files only.
RECURSIVE ExpandLines(_, _, _)
ExpandLines(text, i, visited) ==
    IF i > Len(text) THEN IncOk(<<>>)
    ELSE LET line == text[i]
             inc == IncludeOf(line)
             rest == ExpandLines(text, i + 1, visited)
             name == IncPath(inc.rest)
             path == Canonicalize(name)
             chunk == ExpandLines(disk[path], 1, Append(visited, path))
         IN IF ~inc.some
            THEN IF rest.status = "ok" THEN IncOk(line \o <<Newline>> \o rest.out)
                 ELSE rest
            ELSE IF path \notin DOMAIN disk THEN IncErr("include not found")
            ELSE IF OnStack(visited, path) THEN IncErr("circular include")
            ELSE IF chunk.status # "ok" THEN chunk
            ELSE IF rest.status = "ok" THEN IncOk(chunk.out \o <<Newline>> \o rest.out)
            ELSE rest

\* What expand_one(&tmp, ..) makes of the text it read from the root file.
ExpandText(text) == ExpandLines(text, 1, <<TmpRoot>>)

ECall(src) == [pc |-> "call", src |-> src, text |-> <<>>, result |-> IncIdle]
ENoCall == [pc |-> "none", src |-> <<>>, text |-> <<>>, result |-> IncIdle]

ParInit ==
    /\ tmpFile = NoTmpFile
    /\ ec = [t \in Threads |-> ENoCall]

\* fs::create_dir_all(base_dir).ok(); fs::write(&tmp, src)?
EWrite(t) ==
    /\ ec[t].pc = "call"
    /\ ParFrame
    /\ \E written \in BOOLEAN :
          IF written
          THEN /\ tmpFile' = TmpFileWith(ec[t].src)
               /\ ec' = [ec EXCEPT ![t].pc = "canonicalize"]
          ELSE /\ ec' = [ec EXCEPT ![t].pc = "done", ![t].result = IncErr("write tmp")]
               /\ UNCHANGED tmpFile

\* expand_one(&tmp, ..): path.canonicalize()?, which fails on a path that
\* names no file; the stack is empty, so stack.contains is false.
ECanonicalize(t) ==
    /\ ec[t].pc = "canonicalize"
    /\ ParFrame
    /\ IF tmpFile.present
       THEN ec' = [ec EXCEPT ![t].pc = "read"]
       ELSE ec' = [ec EXCEPT ![t].pc = "remove", ![t].result = IncErr("canonicalize")]
    /\ UNCHANGED tmpFile

\* fs::read_to_string(&path)?
ERead(t) ==
    /\ ec[t].pc = "read"
    /\ ParFrame
    /\ IF tmpFile.present
       THEN ec' = [ec EXCEPT ![t].pc = "walk", ![t].text = tmpFile.text]
       ELSE ec' = [ec EXCEPT ![t].pc = "remove", ![t].result = IncErr("read")]
    /\ UNCHANGED tmpFile

\* The walk over the lines read, down to Ok(out) or the first Err.
EWalk(t) ==
    /\ ec[t].pc = "walk"
    /\ ParFrame
    /\ ec' = [ec EXCEPT ![t].pc = "remove", ![t].result = ExpandText(ec[t].text)]
    /\ UNCHANGED tmpFile

\* let _ = fs::remove_file(&tmp); result
ERemove(t) ==
    /\ ec[t].pc = "remove"
    /\ ParFrame
    /\ tmpFile' = NoTmpFile
    /\ ec' = [ec EXCEPT ![t].pc = "done"]

\* ======================================================== specifications
vars == <<backend, altKey, altIn, reported, kBudget, archHint, hotReload, debugAssertions,
          timingAnswer, bufVars, kernVars,
          incVars, sizeVars, lockVars,
                parVars>>

\* The build and the inputs of a run of the buffer cache.
Init ==
    /\ backend \in Backends
    /\ altKey \in AltKeys
    /\ altIn = [BaseInput EXCEPT !.entry = "f"]
    /\ reported = BaseReported
    /\ kBudget = MaxKernCalls
    /\ archHint = "accepted"
    /\ hotReload = FALSE
    /\ debugAssertions = FALSE
    /\ timingAnswer = "ok"
    /\ BufInit
    /\ KInit
    /\ disk = BaseDisk
    /\ rootSrc = <<>>
    /\ IncStartState
    /\ overflowChecks = FALSE
    /\ szView = NoView
    /\ LockInit
    /\ ParInit

\* The build and the inputs of a run of the kernel cache.
InitKern ==
    /\ backend \in Backends
    /\ altKey = [BaseKey EXCEPT !.tag = 1]
    /\ altIn \in KernelInputs
    /\ reported = BaseReported
    /\ kBudget = MaxKernCalls
    /\ archHint \in (IF backend = "cuda" THEN {"accepted", "rejected"} ELSE {"accepted"})
    /\ hotReload = FALSE
    /\ debugAssertions = FALSE
    /\ timingAnswer = "ok"
    /\ BufInit
    /\ KInit
    /\ disk = BaseDisk
    /\ rootSrc = <<>>
    /\ IncStartState
    /\ overflowChecks = FALSE
    /\ szView = NoView
    /\ LockInit
    /\ ParInit

\* The inputs of a run of dispatches, in a build without debug_assertions
\* on a driver whose timing calls succeed.
InitRun ==
    /\ backend \in Backends
    /\ altKey = [BaseKey EXCEPT !.tag = 1]
    /\ altIn \in HandleInputs
    /\ reported = BaseReported
    /\ kBudget = MaxRunCalls
    /\ archHint = "accepted"
    /\ hotReload = FALSE
    /\ debugAssertions = FALSE
    /\ timingAnswer = "ok"
    /\ BufInit
    /\ KInit
    /\ disk = BaseDisk
    /\ rootSrc = <<>>
    /\ IncStartState
    /\ overflowChecks = FALSE
    /\ szView = NoView
    /\ LockInit
    /\ ParInit

\* The build, the frame and the pipeline limits of a run of dispatches of
\* one kernel with valid handles.
InitLaunch ==
    /\ backend \in Backends
    /\ altKey = [BaseKey EXCEPT !.tag = 1]
    /\ altIn \in FrameInputs
    /\ reported \in AllReported
    /\ kBudget = MaxRunCalls
    /\ archHint = "accepted"
    /\ hotReload = FALSE
    /\ debugAssertions \in BOOLEAN
    /\ timingAnswer \in TimingAnswers
    /\ BufInit
    /\ KInit
    /\ disk = BaseDisk
    /\ rootSrc = <<>>
    /\ IncStartState
    /\ overflowChecks = FALSE
    /\ szView = NoView
    /\ LockInit
    /\ ParInit

BufNext ==
    \E t \in Threads :
        \/ BufBegin(t)
        \/ BufSuiteAllocate(t)
        \/ BufLockAcquire(t)
        \/ BufHit(t)
        \/ BufMissPtrMetal(t)
        \/ BufMissSuite(t)
        \/ BufMissCuda(t)
        \/ BufCleanupBegin(t)
        \/ BufCleanupDrain(t)

\* The buffer cache alone, called from NThreads threads.
SpecBuf == Init /\ [][BufNext]_vars

\* A development build that re-reads the shader files, asked for one kernel.
InitReload ==
    /\ backend \in Backends
    /\ altKey = [BaseKey EXCEPT !.tag = 1]
    /\ altIn = BaseInput
    /\ reported = BaseReported
    /\ kBudget = MaxRunCalls
    /\ archHint = "accepted"
    /\ hotReload = TRUE
    /\ debugAssertions = TRUE
    /\ timingAnswer = "ok"
    /\ BufInit
    /\ KInit
    /\ disk = BaseDisk
    /\ rootSrc = <<>>
    /\ IncStartState
    /\ overflowChecks = FALSE
    /\ szView = NoView
    /\ LockInit
    /\ ParInit

KernNext ==
    \E t \in Threads :
        \/ KernBegin(t)
        \/ KCompile(t)
        \/ KCleanup(t)

\* The kernel cache alone, called from NThreads threads.
SpecKern == InitKern /\ [][KernNext]_vars

RunNext ==
    \E t \in Threads :
        \/ RunBegin(t)
        \/ KCompile(t)
        \/ RunLaunch(t)
        \/ KCleanup(t)

\* The kernel cache of a hot-reload build.
SpecReload == InitReload /\ [][KernNext]_vars

\* The dispatch entry point, called from NThreads threads while the kernel
\* cache is cleaned up or hot-reloaded.
SpecRun == InitRun /\ [][RunNext]_vars

\* Dispatches made one after the other from one render thread.
LaunchNext ==
    \E t \in {1} :
        \/ RunBegin(t)
        \/ KCompile(t)
        \/ RunLaunch(t)

SpecLaunch == InitLaunch /\ [][LaunchNext]_vars

\* One expansion, of a root source the caller passes, over a set of shader
\* files.
InitInc ==
    /\ backend = "metal"
    /\ altKey = [BaseKey EXCEPT !.tag = 1]
    /\ altIn = [BaseInput EXCEPT !.entry = "f"]
    /\ reported = BaseReported
    /\ kBudget = MaxKernCalls
    /\ archHint = "accepted"
    /\ hotReload = FALSE
    /\ debugAssertions = FALSE
    /\ timingAnswer = "ok"
    /\ BufInit
    /\ KInit
    /\ disk \in DiskImages
    /\ rootSrc = <<>>
    /\ IncStartState
    /\ overflowChecks = FALSE
    /\ szView = NoView
    /\ LockInit
    /\ ParInit

IncNext ==
    \/ IncBegin
    \/ IncCopyLine
    \/ IncEnter
    \/ IncReturn

SpecInc == InitInc /\ [][IncNext]_vars

\* The expander runs on the calling thread, which keeps running.
SpecIncLive == SpecInc /\ WF_vars(IncNext)

\* One call of get_or_create for each sample size, in a build of either profile.
InitSize ==
    /\ backend \in Backends
    /\ altKey = [BaseKey EXCEPT !.tag = 1]
    /\ altIn = [BaseInput EXCEPT !.entry = "f"]
    /\ reported = BaseReported
    /\ kBudget = MaxKernCalls
    /\ archHint = "accepted"
    /\ hotReload = FALSE
    /\ debugAssertions = FALSE
    /\ timingAnswer = "ok"
    /\ BufInit
    /\ KInit
    /\ disk = BaseDisk
    /\ rootSrc = <<>>
    /\ IncStartState
    /\ overflowChecks \in BOOLEAN
    /\ szView \in SizeCalls
    /\ LockInit
    /\ ParInit

SizeNext == SizeCall

SpecSize == InitSize /\ [][SizeNext]_vars

LockNext ==
    \E t \in Threads :
        \/ LCallBegin(t)
        \/ LBeforeLock(t)
        \/ LAcquire(t)
        \/ LGuardDrop(t)
        \/ LCompile(t)

\* The build of a run of cache operations.
InitLock ==
    /\ backend \in Backends
    /\ altKey = [BaseKey EXCEPT !.tag = 1]
    /\ altIn = [BaseInput EXCEPT !.entry = "f"]
    /\ reported = BaseReported
    /\ kBudget = MaxKernCalls
    /\ archHint = "accepted"
    /\ hotReload = FALSE
    /\ debugAssertions = FALSE
    /\ timingAnswer = "ok"
    /\ BufInit
    /\ KInit
    /\ disk = BaseDisk
    /\ rootSrc = <<>>
    /\ IncStartState
    /\ overflowChecks = FALSE
    /\ szView = NoView
    /\ LockInit
    /\ ParInit

\* The cache operations of both caches, called from NThreads threads.
SpecLock == InitLock /\ [][LockNext]_vars

\* Every thread that can take a step takes one in the end: threads are
\* scheduled by the operating system and native calls return.
SpecLockLive == SpecLock /\ WF_vars(LockNext)

\* Concurrent include expansion alone: every thread makes one call, no two
\* with the same source, over shader files that stay as they are.
ParNext ==
    \E t \in Threads :
        \/ EWrite(t)
        \/ ECanonicalize(t)
        \/ ERead(t)
        \/ EWalk(t)
        \/ ERemove(t)

InitPar ==
    /\ backend = "metal"
    /\ altKey = [BaseKey EXCEPT !.tag = 1]
    /\ altIn = [BaseInput EXCEPT !.entry = "f"]
    /\ reported = BaseReported
    /\ kBudget = MaxKernCalls
    /\ archHint = "accepted"
    /\ hotReload = TRUE
    /\ debugAssertions = FALSE
    /\ timingAnswer = "ok"
    /\ BufInit
    /\ KInit
    /\ disk = BaseDisk
    /\ rootSrc = <<>>
    /\ IncStartState
    /\ overflowChecks = FALSE
    /\ szView = NoView
    /\ LockInit
    /\ tmpFile = NoTmpFile
    /\ ec \in {f \in [Threads -> {ECall(src) : src \in ParSources}] :
                  \A t, u \in Threads : t # u => f[t].src # f[u].src}

SpecPar == InitPar /\ [][ParNext]_vars

\* ------------------------------------------------------------------ claims
Finished(t, op) == bc[t].pc = "done" /\ bc[t].op = op

ReturnedFor(k) == {r \in bufReturned : r.key = k}

TotalAllocCalls == allocCalls[BaseKey] + allocCalls[altKey]

NoPanic == \A t \in Threads : bc[t].pc # "panic"

Quiescent == \A t \in Threads : ~InCall(t)

\* C1: callers of get_or_create with the same key, on either device-handle
\* form, cause exactly one native allocation in total and all receive the
\* same handle (no cleanup running in between).
C1_OneAllocationPerKey ==
    nBufCleanups = 0 =>
        \A k \in Keys :
            /\ allocCalls[k] <= 1
            /\ (ReturnedFor(k) # {} => allocCalls[k] = 1)
            /\ \A r1, r2 \in ReturnedFor(k) : r1.raw = r2.raw

\* C2: all get_or_create calls made with one key since the last cleanup
\* returned the same underlying handle.
C2_IdempotentHandle ==
    \A r1, r2 \in bufReturned :
        BufferKeyEq(r1.key, r2.key) => r1.raw = r2.raw

\* C2 witness: after a call that created the buffer, a second call with the
\* same key has returned the cached non-null handle (no cleanup so far).
C2_Witness ==
    /\ nBufCleanups = 0
    /\ \E t1, t2 \in Threads :
          /\ t1 # t2
          /\ Finished(t1, "get_or_create") /\ Finished(t2, "get_or_create")
          /\ bc[t1].key = bc[t2].key
          /\ ~bc[t1].hit /\ bc[t2].hit
          /\ bc[t1].raw # Null /\ bc[t2].raw = bc[t1].raw

\* C3: in a sequential series of get_or_create calls without cleanup, a call
\* whose key is cached performs no native allocation, and the allocations
\* performed number the distinct keys requested.
C3_AllocateOnlyOnMiss ==
    (~bufOverlap /\ nBufCleanups = 0 /\ NoPanic) =>
        /\ \A t \in Threads :
              (Finished(t, "get_or_create") /\ bc[t].hit) => bc[t].allocs = 0
        /\ Quiescent =>
              TotalAllocCalls = Cardinality({r.key : r \in bufReturned})

\* C4: two different keys never share an underlying handle, in the cache or
\* in what get_or_create returned.
C4_DistinctKeysDistinctHandles ==
    /\ \A e1, e2 \in bufCache : e1.key # e2.key => e1.raw # e2.raw
    /\ \A r1, r2 \in bufReturned : r1.key # r2.key => r1.raw # r2.raw

\* C5: in every backend a cleanup() call returns having released every
\* cached native buffer exactly once and emptied the map, and the first
\* get_or_create after it performs exactly one fresh allocation.
C5_CleanupEmptiesCache ==
    /\ bufOverReleased = {}
    /\ \A t \in Threads :
          (bc[t].op = "cleanup" /\ ~InCall(t)) =>
              /\ bc[t].pc = "done"
              /\ bc[t].drained = NonNullRaws(bc[t].cachedBefore)
              /\ bc[t].drained \subseteq bufReleased
    /\ \A t \in Threads :
          (/\ ~bufOverlap
           /\ nBufCleanups > 0
           /\ Finished(t, "get_or_create")
           /\ bufReturned = {[key |-> bc[t].key, raw |-> bc[t].raw]}) =>
              /\ ~bc[t].hit
              /\ bc[t].allocs = 1
              /\ bc[t].raw \notin bufReleased

\* ---------------------------------------------------- kernel-layer claims
\* Thread t is in, or has finished, a run() or get_pso_pair() call.
KernelCall(t) == kc[t].op \in {"run", "get_pso_pair"}

\* The requests get_pso_pair had answered, since the last cleanup, when the
\* call of t began.
AnsweredBefore(t) == {r.req : r \in kc[t].before}

\* C6: with calls made one after the other, a request that reaches the cache
\* for a (device, source, entry) that get_pso_pair has already answered since the last cleanup is
\* served from the cache, with no compilation, and receives the very pair
\* answered before; a successful request whose entry point has not been
\* answered before on that device compiles the full-precision and the
\* half-precision variant exactly once each.
C6_SequentialCompileOnce ==
    ~kOverlap =>
        \A t \in Threads :
            (KernelCall(t) /\ kc[t].lookups = 1 /\ kc[t].pc \in {"launch", "done"}) =>
                /\ ReqOf(kc[t].in) \in AnsweredBefore(t) =>
                      /\ kc[t].got /\ kc[t].hit
                      /\ kc[t].f32n = 0 /\ kc[t].f16n = 0
                      /\ \A r \in kc[t].before :
                            r.req = ReqOf(kc[t].in) => r.pair = kc[t].pair
                /\ (/\ kc[t].got
                    /\ \A q \in AnsweredBefore(t) :
                          q.device = KeyDevice(kc[t].in) => q.entry # kc[t].in.entry) =>
                      /\ ~kc[t].hit
                      /\ kc[t].f32n = 1 /\ kc[t].f16n = 1

C6_Witness ==
    /\ ~kOverlap
    /\ \E t, u \in Threads :
          /\ t # u
          /\ KernelCall(u) /\ kc[u].got /\ ~kc[u].hit
          /\ kc[u].f32n = 1 /\ kc[u].f16n = 1
          /\ KernelCall(t) /\ kc[t].got /\ kc[t].hit
          /\ ReqOf(kc[t].in) = ReqOf(kc[u].in)
          /\ kc[t].pair = kc[u].pair

\* C7: however the calls of get_pso_pair interleave, all callers of one
\* (device, source, entry) receive the same kernel pair: each variant is
\* compiled once per key and only one instance per key ever exists.
C7_ConcurrentOnePairPerKey ==
    nKCleanups = 0 =>
        \A r1, r2 \in kReturned : r1.req = r2.req => r1.pair = r2.pair

\* C8: a request never receives a kernel compiled from another source text:
\* the pair answered for (device, source, entry) was compiled from that
\* source, on every backend.
C8_KernelFromOwnSource ==
    \A r \in kReturned : r.pair.src = r.req.src /\ r.pair.entry = r.req.entry

\* The errors run() reports for a missing handle.
InvalidHandleErrors ==
    {"null buffers", "Invalid device or command queue handle", "Invalid CUDA handles"}

SomeDataHandleNull(in) == \E f \in DataHandles : in[f] = Null

\* C9: a run() whose outgoing, incoming or destination handle is null ends
\* with an invalid-handle error having looked nothing up, compiled nothing,
\* made no native call and submitted nothing, and the step that takes it
\* leaves the kernel cache and the buffer cache as they were.
C9_NullDataHandleFailsFirst ==
    /\ [](\A t \in Threads :
            (kc[t].op = "run" /\ SomeDataHandleNull(kc[t].in)) =>
                /\ kc[t].pc = "done"
                /\ kc[t].res \in InvalidHandleErrors
                /\ kc[t].lookups = 0
                /\ kc[t].f32n = 0 /\ kc[t].f16n = 0
                /\ ~kc[t].native /\ ~kc[t].submitted)
    /\ [][\A t \in Threads :
            (/\ kc'[t] # kc[t]
             /\ kc'[t].op = "run"
             /\ SomeDataHandleNull(kc'[t].in)) =>
                /\ kCache' = kCache /\ kInit' = kInit /\ nextJob' = nextJob
                /\ bufCache' = bufCache /\ bufInit' = bufInit
                /\ allocCalls' = allocCalls]_vars

C9_Witness ==
    /\ kCache # {}
    /\ \E t \in Threads :
          /\ kc[t].op = "run" /\ kc[t].pc = "done"
          /\ kc[t].in.dest_data = Null
          /\ kc[t].res = "null buffers"

\* C10: a run() whose device handle or queue handle is null ends with an
\* error having done nothing else: no lookup, no compilation, no native
\* call, no submission, whether or not the kernel is cached.
C10_NullDeviceOrQueueFailsFast ==
    \A t \in Threads :
        (/\ kc[t].op = "run"
         /\ (kc[t].in.device_handle = Null \/ kc[t].in.command_queue_handle = Null)) =>
            /\ kc[t].pc = "done"
            /\ kc[t].res \notin {"ok", "none"}
            /\ kc[t].lookups = 0
            /\ kc[t].f32n = 0 /\ kc[t].f16n = 0
            /\ ~kc[t].native /\ ~kc[t].submitted

\* ------------------------------------------------------- dispatch claims
\* Thread t has been through the launch part of run().
Launched(t) == kc[t].op = "run" /\ kc[t].pc = "done" /\ kc[t].got

\* C11: a dispatch hands the device the full-precision member of the cached
\* pair of its kernel when is16f is false and the half-precision member when
\* is16f is true, and a dispatch of a kernel that has been answered before
\* compiles nothing, whatever the flag.
C11_PrecisionSelection ==
    \A t \in Threads :
        Launched(t) =>
            /\ \E e \in kCache :
                  /\ e.key = KernelKey(kc[t].in)
                  /\ kc[t].launch.pipeline[1] = e.pair.id
            /\ kc[t].launch.pipeline[2] = (IF kc[t].in.is16f THEN "f16" ELSE "f32")
            /\ ReqOf(kc[t].in) \in AnsweredBefore(t) =>
                  kc[t].hit /\ kc[t].f32n = 0 /\ kc[t].f16n = 0

C11_Witness ==
    \E t \in Threads :
        /\ Launched(t) /\ kc[t].submitted
        /\ kc[t].in.is16f /\ kc[t].hit
        /\ kc[t].launch.pipeline = <<1, "f16">>

\* C12: every launch handed to the device has exactly five arguments, in
\* this order: the outgoing buffer, the incoming buffer, the destination
\* buffer, the transition parameters, the user parameters.
C12_FiveSlotsInOrder ==
    \A t \in Threads :
        (Launched(t) /\ kc[t].submitted) =>
            LET slots == kc[t].launch.slots IN
            /\ Len(slots) = 5
            /\ slots[1] = [arg |-> "outgoing_data", val |-> kc[t].in.outgoing_data]
            /\ slots[2] = [arg |-> "incoming_data", val |-> kc[t].in.incoming_data]
            /\ slots[3] = [arg |-> "dest_data", val |-> kc[t].in.dest_data]
            /\ slots[4] = [arg |-> "transition_params", val |-> kc[t].launch.tp]
            /\ slots[5] = [arg |-> "user_params", val |-> kc[t].in.user_params]

C12_Witness ==
    \E t \in Threads :
        /\ Launched(t) /\ kc[t].submitted /\ kc[t].completed
        /\ Len(kc[t].launch.slots) = 5

\* The u32 u holds the number x.
HoldsNumber(u, x) == x >= 0 /\ u.hi = x \div 65536 /\ u.lo = x % 65536

\* C13: the transition parameters of a dispatch carry the numbers of its
\* configuration: the three pitches, the width, the height and the progress,
\* each unchanged.
C13_TransitionParamsFromConfig ==
    \A t \in Threads :
        Launched(t) =>
            LET tp == kc[t].launch.tp
                in == kc[t].in IN
            /\ HoldsNumber(tp.out_pitch, in.outgoing_pitch_px)
            /\ HoldsNumber(tp.in_pitch, in.incoming_pitch_px)
            /\ HoldsNumber(tp.dest_pitch, in.dest_pitch_px)
            /\ tp.width = in.width
            /\ tp.height = in.height
            /\ tp.progress = in.progress

\* C14: the grid of a launch is the frame divided by the block, rounded up,
\* in each dimension: grid * block covers the frame and (grid - 1) * block
\* does not.  The block is 16 x 16 where the backend reports none (cuda) and
\* the shape made of the reported limits otherwise; a 1000 x 1 frame gets a
\* 63 x 1 grid of 16 x 16 blocks and a 32 x 1 grid of 32 x 8 blocks.
C14_LaunchGeometry ==
    \A t \in Threads :
        Launched(t) =>
            LET g == kc[t].launch.grid
                b == kc[t].launch.block
                in == kc[t].in IN
            /\ g.w * b.w >= in.width /\ (g.w - 1) * b.w < in.width
            /\ g.h * b.h >= in.height /\ (g.h - 1) * b.h < in.height
            /\ backend = "cuda" => b = [w |-> 16, h |-> 16]
            /\ (backend = "metal" /\ reported.tew >= 1) => b.w = reported.tew
            /\ (in.width = 1000 /\ in.height = 1 /\ b = [w |-> 16, h |-> 16]) =>
                  g = [w |-> 63, h |-> 1]
            /\ (in.width = 1000 /\ in.height = 1 /\ b = [w |-> 32, h |-> 8]) =>
                  g = [w |-> 32, h |-> 1]

C14_Witness ==
    \E t \in Threads :
        /\ Launched(t) /\ kc[t].submitted
        /\ backend = "metal"
        /\ kc[t].in.width = 1000 /\ kc[t].in.height = 1
        /\ kc[t].launch.block = [w |-> 32, h |-> 8]
        /\ kc[t].launch.grid = [w |-> 32, h |-> 1]

\* C15: when a dispatch has returned, with Ok or with an error, every native
\* object it created for the call has been released.
C15_TransientsReleased ==
    \A t \in Threads :
        (kc[t].op = "run" /\ kc[t].pc = "done") => kc[t].created \subseteq kc[t].released

\* C16: a dispatch that returns Ok has handed its launch to the device and
\* the launched work has run to its end without error.
C16_OkOnlyIfCompleted ==
    \A t \in Threads :
        (kc[t].op = "run" /\ kc[t].pc = "done" /\ kc[t].res = "ok") =>
            kc[t].submitted /\ kc[t].completed

CleanupCall(t) == kc[t].op \in {"cleanup", "hot_reload"} /\ kc[t].pc = "done"

\* C17: once cleanup() or hot_reload() has returned, every native object
\* that the compilations made before it created for their pairs (both
\* libraries or modules, both pipelines) has been released, and no object
\* is ever released twice.
C17_CleanupReleasesAll ==
    /\ kOverReleased = {}
    /\ \A t \in Threads :
          CleanupCall(t) =>
              \A id \in 1..kc[t].built : CreatedOf(id) \subseteq kReleased

CompileErrors == {CompileError(o) : o \in MetalStages \cup CudaStages}

\* C18: a miss whose compilation, load or pipeline creation fails returns
\* an error and leaves the kernel cache map exactly as it was; and a
\* request that finds its key absent from the map always goes on to compile.
C18_FailedCompileLeavesCache ==
    [][\A t \in Threads :
          /\ (kc[t].pc = "compile" /\ kc'[t].pc = "done" /\ ~kc'[t].got) =>
                /\ kCache' = kCache
                /\ kc'[t].res \in CompileErrors
          /\ (/\ kc[t].pc \in {"idle", "done"}
              /\ kc'[t] # kc[t]
              /\ kc'[t].op \in {"run", "get_pso_pair"}
              /\ kc'[t].lookups = 1
              /\ KCacheGet(kCache, KernelKey(kc'[t].in)) = {}) =>
                kc'[t].pc = "compile"]_vars

C18_Witness ==
    /\ ~kOverlap
    /\ kCache # {}
    /\ \E t, u \in Threads :
          /\ t # u
          /\ KernelCall(t) /\ kc[t].pc = "done" /\ ~kc[t].got
          /\ kc[t].f32n = 1 /\ kc[t].f16n = 1
          /\ KernelCall(u) /\ kc[u].pc = "compile"
          /\ KernelKey(kc[u].in) = KernelKey(kc[t].in)

\* The request failed at compile_ptx of variant v.
VariantFailed(t, v) ==
    /\ kc[t].pc = "done"
    /\ kc[t].res = "NVRTC compile error"
    /\ IF v = 32 THEN kc[t].att16 = 0 ELSE kc[t].att16 > 0

\* C19: a variant whose compilation with the architecture hint succeeds is
\* compiled in one attempt; one whose hinted compilation fails is compiled
\* a second time without the hint and no more; the variant fails exactly
\* when both attempts fail.
C19_RetryOnceWithoutHints ==
    \A t \in Threads :
        (KernelCall(t) /\ kc[t].pc # "compile") =>
            \A v \in {32, 16} :
                LET a == IF v = 32 THEN kc[t].nvrtc32 ELSE kc[t].nvrtc16
                    n == IF v = 32 THEN kc[t].att32 ELSE kc[t].att16
                IN /\ n <= 2
                   /\ a # <<>> =>
                         /\ a[1] = "ok" => n = 1
                         /\ a[1] = "err" => n = 2
                         /\ VariantFailed(t, v) <=> (a[1] = "err" /\ a[2] = "err")

C19_Witness ==
    \E t, u \in Threads :
        /\ KernelCall(t) /\ kc[t].got
        /\ kc[t].nvrtc32 = <<"err", "ok">> /\ kc[t].att32 = 2
        /\ kc[t].nvrtc16 = <<"err", "ok">> /\ kc[t].att16 = 2
        /\ KernelCall(u) /\ kc[u].pc = "done" /\ ~kc[u].got
        /\ kc[u].nvrtc16 = <<"err", "err">> /\ kc[u].att16 = 2

HotReloadCall(t) == kc[t].op = "hot_reload" /\ kc[t].pc = "done"

\* C20: a hot_reload() step leaves the kernel cache empty, compiles nothing
\* and starts no compilation; the request that then looks up a key the hot
\* reload removed, the map still being empty, misses and goes on to
\* compile, and a compilation that succeeds has compiled the full-precision
\* and the half-precision variant once each.
C20_HotReloadIsCleanupOnly ==
    [][\A t \in Threads :
          /\ (kc'[t] # kc[t] /\ kc'[t].op = "hot_reload") =>
                /\ kCache' = {}
                /\ nextJob' = nextJob
                /\ kReleased' = kReleased \cup ReleasedOfAll(kCache)
                /\ \A u \in Threads \ {t} : kc'[u] = kc[u]
          /\ (/\ kc[t].pc \in {"idle", "done"}
              /\ kc'[t] # kc[t]
              /\ kc'[t].op \in {"run", "get_pso_pair"}
              /\ kc'[t].lookups = 1
              /\ kCache = {}
              /\ \E u \in Threads :
                    /\ HotReloadCall(u)
                    /\ KernelKey(kc'[t].in) \in {e.key : e \in kc[u].drained}) =>
                /\ kc'[t].pc = "compile"
                /\ ~kc'[t].hit
                /\ kc'[t].f32n = 0 /\ kc'[t].f16n = 0
          /\ (kc[t].pc = "compile" /\ kc'[t].got) =>
                /\ kc'[t].f32n = 1 /\ kc'[t].f16n = 1
                /\ nextJob' = nextJob + 1]_vars

C20_Witness ==
    /\ ~kOverlap
    /\ \E t, u \in Threads :
          /\ HotReloadCall(u) /\ kc[u].built = 1
          /\ KernelCall(t) /\ kc[t].got /\ ~kc[t].hit
          /\ kc[t].pair.id = 2
          /\ KernelKey(kc[t].in) \in {e.key : e \in kc[u].drained}
          /\ kc[t].f32n = 1 /\ kc[t].f16n = 1

\* The files a text names in its directives, as the walker resolves them.
IncTargets(n) ==
    {Canonicalize(IncPath(IncludeOf(TextAt(n)[k]).rest)) :
        k \in {j \in DOMAIN TextAt(n) : IncludeOf(TextAt(n)[j]).some}}
    \cap (FileNames \cup {TmpRoot})

RECURSIVE IncClosure(_)
IncClosure(S) ==
    LET T == S \cup UNION {IncTargets(n) : n \in S}
    IN IF T = S THEN S ELSE IncClosure(T)

\* The root source reaches a file that includes itself, directly or through
\* other files.
CircularSource == \E n \in IncClosure({TmpRoot}) : n \in IncClosure(IncTargets(n))

\* C21: expand_includes_runtime always returns; on a source that includes
\* itself directly or transitively it returns an error; and expand_one is
\* never nested deeper than the number of files there are.
C21_CircularIncludeTerminates ==
    /\ <>(incPc = "done")
    /\ [](incPc = "done" /\ CircularSource => incResult.status = "err")
    /\ [](Len(incStack) <= Cardinality(FileNames) + 1)

C21_Witness ==
    /\ incPc = "done"
    /\ CircularSource
    /\ disk["a"] = <<TextPadded, IncBPadded>>
    /\ disk["b"] = <<IncA>>
    /\ incResult = IncErr("circular include")

\* A line whose trimmed text is the directive word, blanks, and one path
\* between double quotes.
IsQuotedInclude(line) ==
    LET l == Trim(line)
    IN /\ Len(l) >= 4
       /\ l[1] = Directive
       /\ l[Len(l) - 2] = DQuote
       /\ l[Len(l)] = DQuote
       /\ \A k \in 2..(Len(l) - 3) : l[k] = Blank

QuotedPath(line) == Trim(line)[Len(Trim(line)) - 1]

RECURSIVE Flattened(_)
Flattened(text) ==
    IF text = <<>> THEN <<>>
    ELSE (IF IsQuotedInclude(Head(text))
          THEN Flattened(TextAt(Canonicalize(QuotedPath(Head(text)))))
          ELSE Head(text))
         \o <<Newline>> \o Flattened(Tail(text))

\* C28: the text a successful expansion returns is the root's lines in
\* order, each followed by a newline, where a line of the double-quoted
\* form stands for the expansion of the file it names and every other line,
\* angle-bracket and single-quoted directives included, stands unchanged.
C28_OnlyDoubleQuotedExpanded ==
    incResult.status = "ok" => incResult.out = Flattened(rootSrc)

C28_Witness ==
    /\ incResult.status = "ok"
    /\ rootSrc = <<IncSingle, IncBPadded>>
    /\ disk["b"] = <<IncSingle, TextPlain>>
    /\ incResult.out = IncSingle \o <<Newline>> \o IncSingle \o <<Newline>>
                       \o TextPlain \o <<Newline, Newline>>

HotReadFailed(t) == KernelCall(t) /\ kc[t].hot \in {"unreadable", "bad_includes"}

\* C22: in a hot-reload build, a request whose shader file could not be
\* read or whose includes could not be expanded hands the embedded source
\* to the compiler, and what it returns is the pair compiled from the
\* embedded source or the error of compiling it.
C22_HotReloadFallsBack ==
    \A t \in Threads :
        HotReadFailed(t) =>
            /\ kc[t].raw_src = kc[t].in.shader_src
            /\ kc[t].got => kc[t].pair.src = kc[t].in.shader_src
            /\ kc[t].pc = "done" =>
                  kc[t].res \in {ResAfterGetPsoPair(kc[t].op)} \cup CompileErrors

C22_Witness ==
    /\ hotReload
    /\ \E t, u \in Threads :
          /\ KernelCall(t) /\ kc[t].hot = "bad_includes" /\ kc[t].got
          /\ kc[t].pair.src = kc[t].in.shader_src
          /\ KernelCall(u) /\ kc[u].hot = "unreadable"
          /\ kc[u].pc = "done" /\ ~kc[u].got /\ kc[u].f32n = 1

\* C23: a refused native allocation is fatal to get_or_create: no view with
\* a null handle is returned by the refused call or by a later one, and no
\* null handle is in the cache.
C23_AllocationFailureIsFatal ==
    /\ \A e \in bufCache : e.raw # Null
    /\ \A r \in bufReturned : r.raw # Null
    /\ \A t \in Threads :
          bc[t].op = "get_or_create" /\ bc[t].pc = "done" => bc[t].raw # Null

\* The view of the finished call, its numbers widened for comparison.
ViewReturned == szView.op = "get_or_create" /\ szView.returned

\* C24: the view has row_bytes = width * bytes_per_pixel and pitch_px =
\* width, on a hit as on a miss, for all 32-bit unsigned width and
\* bytes_per_pixel.
C24_ViewStrideFromKey ==
    ViewReturned =>
        /\ Widen(szView.row_bytes, 2 * U32Digits)
              = Product(szView.width, szView.bytes_per_pixel)
        /\ szView.pitch_px = szView.width

\* C25: on a miss the length asked of the allocator is the mathematical
\* product width * height * bytes_per_pixel, with no overflow or wrap-around,
\* for all 32-bit unsigned values.
C25_LengthIsExactProduct ==
    szView.op = "get_or_create" /\ ~szView.hit =>
        /\ ~szView.length.panic
        /\ Widen(szView.length.value, 3 * U32Digits)
              = Product(Product(szView.width, szView.height), szView.bytes_per_pixel)

Submits == {"commit", "cuLaunchKernel"}

TimingReads == {"GPUStartTime", "GPUEndTime", "cuEventElapsedTime"}

\* The call came to the launch and has returned.
LaunchReturned(t) == kc[t].op = "run" /\ kc[t].pc = "done" /\ kc[t].outcome # "none"

ReturnedOk(t) == LaunchReturned(t) /\ kc[t].res = "ok"

\* C26: in every backend and build, a dispatch that returns Ok has submitted
\* its work, then made a call that blocks until that work has ended, and
\* only then read the times and returned.
C26_DispatchIsSynchronous ==
    \A t \in Threads :
        ReturnedOk(t) =>
            \E i, j \in DOMAIN kc[t].steps :
                /\ i < j
                /\ kc[t].steps[i] \in Submits
                /\ kc[t].steps[j] \in kc[t].waits
                /\ \A k \in DOMAIN kc[t].steps :
                      kc[t].steps[k] \in TimingReads => j < k

\* C27: whatever the timing calls answer, run() returns what the launch
\* alone came to: Ok when the launch succeeded.
C27_TimingNeverFailsDispatch ==
    \A t \in Threads :
        LaunchReturned(t) =>
            /\ kc[t].res = LaunchResult(kc[t].outcome)
            /\ (kc[t].outcome = "ok" => kc[t].res = "ok")

C27_Witness ==
    \E t \in Threads :
        /\ ReturnedOk(t)
        /\ kc[t].outcome = "ok"
        /\ kc[t].timing \in {"create", "record", "query"}

\* The native object behind a member of a pair: the pipeline state on metal,
\* on cuda the module that owns the function.
NativeOf(member) ==
    IF backend = "metal" THEN <<member[1], "pso_" \o member[2]>>
    ELSE <<member[1], "module_" \o member[2]>>

\* C29: however run() and cleanup()/hot_reload() interleave, the step of
\* run() that binds and submits the kernel never uses a handle that a
\* cleanup has released.
C29_NoUseAfterRelease ==
    [][\A t \in Threads :
          (kc[t].pc = "launch" /\ kc'[t].pc = "done" /\ kc'[t].submitted) =>
              NativeOf(kc'[t].launch.pipeline) \notin kReleased]_vars

\* The compilation of thread t succeeds in this step.
InsertStep(t) == kc[t].pc = "compile" /\ kc'[t].got

\* C30: the key is absent from the kernel cache whenever get_pso_pair
\* inserts, also when misses on one key overlap, and a pair leaves the map
\* only by being released.
C30_InsertNeverReplaces ==
    [][/\ \A t \in Threads :
             InsertStep(t) => KCacheGet(kCache, KernelKey(kc[t].in)) = {}
       /\ \A e \in kCache \ kCache' : ReleasedOf(e.pair) \subseteq kReleased']_vars

\* The chain of files being expanded: the paths of the activations of
\* expand_one, outermost first.
IncChain == [k \in 1..Len(incStack) |-> incStack[k].path]

\* C32: the walker's stack is exactly the chain of files being expanded, and
\* an expansion is refused as circular only when a file reaches itself: a
\* file included twice through different branches is expanded at both.
C32_StackIsCurrentChain ==
    /\ incVisited = IncChain
    /\ incResult = IncErr("circular include") => CircularSource

C32_Witness ==
    /\ incResult.status = "ok"
    /\ rootSrc = <<IncA, IncBPadded>>
    /\ disk["a"] = <<TextPlain>>
    /\ disk["b"] = <<IncA>>
    /\ incResult.out = TextPlain \o <<Newline, Newline>>
                       \o TextPlain \o <<Newline, Newline, Newline>>

\* C33: on metal, for every threadExecutionWidth and
\* maxTotalThreadsPerThreadgroup the pipeline reports, the thread group of a
\* launch has width >= 1, 1 <= height <= 16 and no more threads than
\* maxTotalThreadsPerThreadgroup.
C33_ThreadGroupValid ==
    \A t \in Threads :
        (Launched(t) /\ backend = "metal") =>
            LET b == kc[t].launch.block IN
            /\ b.w >= 1
            /\ b.h >= 1 /\ b.h <= 16
            /\ b.w * b.h <= reported.max_threads

LocksOf(t) == {l \in CacheLocks : lockOwner[l] = t}

\* C34: a thread holds at most one cache lock at a time and none outside
\* its critical sections, whichever way it left them; and every cache
\* operation that was begun completes.
C34_LocksReleasedAndCallsComplete ==
    /\ [](\A t \in Threads :
             /\ Cardinality(LocksOf(t)) <= 1
             /\ lc[t].pc \notin {"held", "held2"} => LocksOf(t) = {})
    /\ \A t \in Threads : [](LInCall(t) => <>(~LInCall(t)))

C34_Witness ==
    \E t, u \in Threads :
        /\ lc[t].op = "get_or_create" /\ lc[t].pc = "panicked" /\ lc[t].sections = 1
        /\ lc[u].op = "get_or_create" /\ lc[u].pc = "held"

\* A call that wrote its root file and has returned.
EReturned(t) == ec[t].pc = "done" /\ ec[t].result # IncErr("write tmp")

\* C31: when threads call expand_includes_runtime at the same time with the
\* same base_dir and different sources, every call that has returned has
\* returned the expansion of its own source: not the expansion of another
\* call's text, and no error for a root file another call removed.
C31_ExpansionIsOfOwnSource ==
    \A t \in Threads : EReturned(t) => ec[t].result = ExpandText(ec[t].src)

====
